---- MODULE Spec2Model ----
(***************************************************************************)
(* Housing-Yard backend: the listing life cycle (propertyController.js,   *)
(* enhancedPropertyContoller.js), the saved searches (searchController.js) *)
(* and the search pipeline (apiFeatures.js, listPublicProperties).         *)
(*                                                                         *)
(* The specifications share the variables:                                 *)
(*   SpecListing   the status-changing handlers over the listing store     *)
(*   SpecSaved     saveSearch / updateSavedSearch / deleteSavedSearch      *)
(*   SpecSearch    one public search request against a listing store       *)
(*   SpecPlan      the filter groups of a request applied in any order     *)
(*   SpecRepeat    the same public search request made twice               *)
(*   SpecEndpoints advancedSearchProperties and getFacetedResults          *)
(*   SpecTotals    the totals of listPublicProperties and getAllProperties *)
(*   SpecSavedRun  saved searches listed and executed against the store    *)
(*   SpecViews     concurrent reads of one listing and its viewCount       *)
(*   SpecRecs      getPropertyRecommendations over the saved searches      *)
(*   SpecSort      public search requests with a sortBy parameter          *)
(*   SpecNumeric   public search requests with numeric parameters          *)
(*   SpecReplay    a search saved and executed again                       *)
(*   SpecFields    price, area and location through create and update      *)
(*   SpecOwners    the saved searches of two users under every handler     *)
(*   SpecReads     reads of one listing while accounts are deleted         *)
(***************************************************************************)
EXTENDS Integers, Sequences, FiniteSets, TLC

VARIABLES
  properties,   \* the Property collection: a sequence, _id = index
  role,         \* the User collection: user -> role
  lastOp,       \* the last request the listing handlers answered
  saved,        \* the SavedSearch collection: a sequence of documents
  ssPc,         \* saveSearch requests in flight: request -> position
  ssLast,       \* the last saved-search response
  store,        \* the listing store a search runs against
  sreq,         \* the query parameters of the last search request
  sresp,        \* the last search response
  viewPc        \* detail-page reads in flight: request -> position

listingVars == <<properties, role, lastOp>>
savedVars == <<saved, ssPc, ssLast>>
searchVars == <<store, sreq, sresp>>
viewVars == <<viewPc>>
vars == <<properties, role, lastOp, saved, ssPc, ssLast, store, sreq, sresp, viewPc>>

(***************************************************************************)
(* Bounds                                                                  *)
(***************************************************************************)
MaxProps == 1
MaxSaved == 2
NumListings == 2
MaxParams == 2

(***************************************************************************)
(* Listing life cycle                                                      *)
(***************************************************************************)
STATUS ==
  {"draft", "pending", "approved", "active", "hold", "sold", "rejected", "archived"}

Users == {"adm", "ann", "bob"}
InitRole == [u \in Users |-> IF u = "adm" THEN "admin" ELSE IF u = "ann" THEN "agent" ELSE "user"]

rolePermissions(r) ==
  CASE r = "admin" -> {"property:create", "property:update", "property:delete", "property:hold"}
    [] r = "agent" -> {"property:create", "property:update", "property:hold"}
    [] r = "user" -> {"property:create"}
    [] OTHER -> {}

checkPermission(u, permission) == permission \in rolePermissions(role[u])

checkRole(u, roles) == role[u] \in roles

ensureOwnerOrAdmin(property, u) ==
  IF role[u] = "admin" THEN TRUE ELSE property.createdBy = u

\* the keys of the modelled part of a request body that survive sanitizing
AllowedFields(userRole) ==
  {"price"} \cup (IF userRole = "admin" THEN {"status"} ELSE {})

sanitizePropertyData(data, userRole) ==
  [f \in (DOMAIN data) \cap AllowedFields(userRole) |-> data[f]]

forbiddenStatuses == {"active", "approved", "rejected", "sold"}

\* $set of the sanitized fields on a stored document
SetFields(doc, updateData) ==
  [f \in DOMAIN doc |-> IF f \in DOMAIN updateData THEN updateData[f] ELSE doc[f]]

Exists(id) == id \in 1..Len(properties)

PropIds == 1..MaxProps
PriceNew == 100
PriceUpd == 200

UpdateBodies ==
  {[status |-> s, price |-> PriceUpd] : s \in STATUS}
    \cup {[status |-> s] : s \in STATUS}
    \cup {[price |-> PriceUpd]}

ReqStatus(body) == IF "status" \in DOMAIN body THEN body.status ELSE ""

Answer(op, u, id, code, reqStatus) ==
  [op |-> op, actor |-> u, actorRole |-> role[u], id |-> id, code |-> code,
   reqStatus |-> reqStatus]

\* POST /properties: protect, checkPermission("property:create"), createProperty
createProperty(u) ==
  /\ Len(properties) < MaxProps
  /\ checkPermission(u, "property:create")
  /\ properties' = Append(properties,
       [status |-> "pending", createdBy |-> u, price |-> PriceNew])
  /\ role' = IF role[u] = "user" THEN [role EXCEPT ![u] = "agent"] ELSE role
  /\ lastOp' = Answer("createProperty", u, Len(properties) + 1, 201, "")
  /\ UNCHANGED <<savedVars, searchVars, viewVars>>

\* PUT /:id: protect, checkPermission("property:update"), updateProperty
updateProperty(u, id, body) ==
  LET updateData == sanitizePropertyData(body, role[u]) IN
  /\ UNCHANGED <<role, savedVars, searchVars, viewVars>>
  /\ IF ~checkPermission(u, "property:update")
       THEN /\ lastOp' = Answer("updateProperty", u, id, 403, ReqStatus(body))
            /\ UNCHANGED properties
     ELSE IF ~Exists(id)
       THEN /\ lastOp' = Answer("updateProperty", u, id, 404, ReqStatus(body))
            /\ UNCHANGED properties
     ELSE IF ~ensureOwnerOrAdmin(properties[id], u)
       THEN /\ lastOp' = Answer("updateProperty", u, id, 403, ReqStatus(body))
            /\ UNCHANGED properties
     ELSE IF /\ "status" \in DOMAIN updateData
             /\ role[u] # "admin"
             /\ updateData.status \in forbiddenStatuses
       THEN /\ lastOp' = Answer("updateProperty", u, id, 400, ReqStatus(body))
            /\ UNCHANGED properties
     ELSE /\ properties' = [properties EXCEPT ![id] = SetFields(@, updateData)]
          /\ lastOp' = Answer("updateProperty", u, id, 200, ReqStatus(body))

\* DELETE /:id: protect, checkPermission("property:delete"), archiveProperty
archiveProperty(u, id) ==
  /\ UNCHANGED <<role, savedVars, searchVars, viewVars>>
  /\ IF ~checkPermission(u, "property:delete")
       THEN /\ lastOp' = Answer("archiveProperty", u, id, 403, "")
            /\ UNCHANGED properties
     ELSE IF ~Exists(id)
       THEN /\ lastOp' = Answer("archiveProperty", u, id, 404, "")
            /\ UNCHANGED properties
     ELSE IF ~ensureOwnerOrAdmin(properties[id], u)
       THEN /\ lastOp' = Answer("archiveProperty", u, id, 403, "")
            /\ UNCHANGED properties
     ELSE IF properties[id].status = "archived"
       THEN /\ lastOp' = Answer("archiveProperty", u, id, 400, "")
            /\ UNCHANGED properties
     ELSE /\ properties' = [properties EXCEPT ![id].status = "archived"]
          /\ lastOp' = Answer("archiveProperty", u, id, 200, "")

\* PATCH /:id/hold: protect, checkPermission("property:hold"), holdProperty
holdProperty(u, id) ==
  /\ UNCHANGED <<role, savedVars, searchVars, viewVars>>
  /\ IF ~checkPermission(u, "property:hold")
       THEN /\ lastOp' = Answer("holdProperty", u, id, 403, "")
            /\ UNCHANGED properties
     ELSE IF ~Exists(id)
       THEN /\ lastOp' = Answer("holdProperty", u, id, 404, "")
            /\ UNCHANGED properties
     ELSE IF ~ensureOwnerOrAdmin(properties[id], u)
       THEN /\ lastOp' = Answer("holdProperty", u, id, 403, "")
            /\ UNCHANGED properties
     ELSE IF properties[id].status = "hold"
       THEN /\ lastOp' = Answer("holdProperty", u, id, 400, "")
            /\ UNCHANGED properties
     ELSE /\ properties' = [properties EXCEPT ![id].status = "hold"]
          /\ lastOp' = Answer("holdProperty", u, id, 200, "")

\* PATCH /:id/resume: protect, checkPermission("property:hold"), resumeProperty
resumeProperty(u, id) ==
  /\ UNCHANGED <<role, savedVars, searchVars, viewVars>>
  /\ IF ~checkPermission(u, "property:hold")
       THEN /\ lastOp' = Answer("resumeProperty", u, id, 403, "")
            /\ UNCHANGED properties
     ELSE IF ~Exists(id)
       THEN /\ lastOp' = Answer("resumeProperty", u, id, 404, "")
            /\ UNCHANGED properties
     ELSE IF ~ensureOwnerOrAdmin(properties[id], u)
       THEN /\ lastOp' = Answer("resumeProperty", u, id, 403, "")
            /\ UNCHANGED properties
     ELSE IF properties[id].status = "active"
       THEN /\ lastOp' = Answer("resumeProperty", u, id, 400, "")
            /\ UNCHANGED properties
     ELSE /\ properties' = [properties EXCEPT ![id].status = "active"]
          /\ lastOp' = Answer("resumeProperty", u, id, 200, "")

\* PATCH /:id/status: protect, checkRole("admin"), changeStatus
changeStatus(u, id, status) ==
  /\ UNCHANGED <<role, savedVars, searchVars, viewVars>>
  /\ IF ~checkRole(u, {"admin"}) \/ role[u] # "admin"
       THEN /\ lastOp' = Answer("changeStatus", u, id, 403, status)
            /\ UNCHANGED properties
     ELSE IF ~Exists(id)
       THEN /\ lastOp' = Answer("changeStatus", u, id, 404, status)
            /\ UNCHANGED properties
     ELSE IF status \notin STATUS
       THEN /\ lastOp' = Answer("changeStatus", u, id, 400, status)
            /\ UNCHANGED properties
     ELSE /\ properties' = [properties EXCEPT ![id].status = status]
          /\ lastOp' = Answer("changeStatus", u, id, 200, status)

BulkOperations == {"activate", "deactivate", "archive", "feature", "bogus"}

\* the status an updateMany of bulkUpdateProperties writes
BulkStatus(operation, old) ==
  CASE operation = "activate" -> "active"
    [] operation = "deactivate" -> "hold"
    [] operation = "archive" -> "archived"
    [] OTHER -> old

\* PATCH /bulk: protect, isAdmin, bulkUpdateProperties
bulkUpdateProperties(u, propertyIds, operation) ==
  LET isAdmin == role[u] = "admin"
      hit(i) == /\ i \in propertyIds
                /\ (isAdmin \/ properties[i].createdBy = u)
  IN
  /\ UNCHANGED <<role, savedVars, searchVars, viewVars>>
  /\ IF ~isAdmin
       THEN /\ lastOp' = Answer("bulkUpdateProperties", u, 0, 403, operation)
            /\ UNCHANGED properties
     ELSE IF operation \notin {"activate", "deactivate", "archive", "feature", "unfeature"}
       THEN /\ lastOp' = Answer("bulkUpdateProperties", u, 0, 400, operation)
            /\ UNCHANGED properties
     ELSE /\ properties' =
               [i \in 1..Len(properties) |->
                  IF hit(i)
                    THEN [properties[i] EXCEPT !.status = BulkStatus(operation, @)]
                    ELSE properties[i]]
          /\ lastOp' = Answer("bulkUpdateProperties", u, 0, 200, operation)

NoOp == [op |-> "none", actor |-> "adm", actorRole |-> "admin", id |-> 0, code |-> 0,
         reqStatus |-> ""]

InitListing ==
  /\ properties = <<>>
  /\ role = InitRole
  /\ lastOp = NoOp
  /\ saved = <<>>
  /\ ssPc = <<>>
  /\ ssLast = <<>>
  /\ store = <<>>
  /\ sreq = <<>>
  /\ sresp = <<>>
  /\ viewPc = <<>>

NextListing ==
  \/ \E u \in Users : createProperty(u)
  \/ \E u \in Users, id \in PropIds, body \in UpdateBodies : updateProperty(u, id, body)
  \/ \E u \in Users, id \in PropIds : archiveProperty(u, id)
  \/ \E u \in Users, id \in PropIds : holdProperty(u, id)
  \/ \E u \in Users, id \in PropIds : resumeProperty(u, id)
  \/ \E u \in Users, id \in PropIds, s \in STATUS \cup {"bogus"} : changeStatus(u, id, s)
  \/ \E u \in Users, ids \in SUBSET PropIds, o \in BulkOperations :
       bulkUpdateProperties(u, ids, o)

SpecListing == InitListing /\ [][NextListing]_vars

(***************************************************************************)
(* Claims on the listing life cycle (checked under SpecListing)            *)
(***************************************************************************)

\* the request lastOp' answers was made by the owner of an existing listing
ByOwner(op) ==
  /\ Exists(op.id)
  /\ properties[op.id].createdBy = op.actor

\* C2: updateProperty by a non-admin owner with status active, approved,
\* rejected or sold is answered with an authorization error (403, not the
\* validation error 400, never 200) and leaves the stored listing unchanged.
C2_OwnerForbiddenStatusRejected ==
  [][(/\ lastOp'.op = "updateProperty"
      /\ lastOp'.actorRole # "admin"
      /\ ByOwner(lastOp')
      /\ lastOp'.reqStatus \in forbiddenStatuses)
       => (lastOp'.code = 403 /\ properties' = properties)]_vars

\* C3: a request by a non-admin actor changes a listing's status only on the
\* actor's own listing, and only hold->active, active->hold or to archived.
C3_NonAdminStatusChanges ==
  [][lastOp'.actorRole # "admin" =>
       \A id \in 1..Len(properties) :
         properties'[id].status # properties[id].status =>
           /\ properties[id].createdBy = lastOp'.actor
           /\ \/ <<properties[id].status, properties'[id].status>>
                   \in {<<"hold", "active">>, <<"active", "hold">>}
              \/ properties'[id].status = "archived"]_vars

\* C4: archived is terminal: no step changes the status of an archived listing.
C4_ArchivedIsTerminal ==
  [][\A id \in 1..Len(properties) :
       properties[id].status = "archived" => properties'[id].status = "archived"]_vars

(***************************************************************************)
(* Saved searches                                                          *)
(***************************************************************************)
SearchUsers == {"ann", "bob"}

\* request strings, as sequences of characters
NameInputs == {<<"a">>, <<" ", "a">>, <<"b">>}

RECURSIVE TrimStart(_)
TrimStart(s) ==
  IF s # <<>> /\ Head(s) = " " THEN TrimStart(Tail(s)) ELSE s

RECURSIVE TrimEnd(_)
TrimEnd(s) ==
  IF s # <<>> /\ s[Len(s)] = " " THEN TrimEnd(SubSeq(s, 1, Len(s) - 1)) ELSE s

\* String.prototype.trim
Trim(s) == TrimEnd(TrimStart(s))

SaveReqs == {"r1", "r2"}

Idle == [pc |-> "idle", user |-> "ann", name |-> <<>>]

\* documents of the collection that findOne / findOneAndDelete can see
Live(i) == i \in 1..Len(saved) /\ ~saved[i].deleted

\* the duplicate check without its isActive condition
existingSearch_anyState(u, name) ==
  \E i \in 1..Len(saved) :
    /\ Live(i)
    /\ saved[i].userId = u
    /\ saved[i].name = Trim(name)

\* SavedSearch.findOne({userId, name: name.trim(), isActive: true})
existingSearch(u, name) ==
  \E i \in 1..Len(saved) :
    /\ Live(i)
    /\ saved[i].userId = u
    /\ saved[i].name = Trim(name)
    /\ saved[i].isActive

\* a lookup by _id alone, whoever owns the search
OwnSearch_anyUser(u, id) == Live(id)

\* SavedSearch.findOne({_id: id, userId})
OwnSearch(u, id) == Live(id) /\ saved[id].userId = u

SsAnswer(op, u, name, code) == [op |-> op, user |-> u, name |-> name, code |-> code]

InFlight == {r \in SaveReqs : ssPc[r].pc = "checked"}

\* saveSearch up to the answer of SavedSearch.findOne: the duplicate-name check
saveSearchCheck(r, u, name) ==
  /\ ssPc[r].pc = "idle"
  /\ existingSearch(u, name) \/ Len(saved) + Cardinality(InFlight) < MaxSaved
  /\ IF existingSearch(u, name)
       THEN /\ ssLast' = SsAnswer("saveSearch", u, name, 400)
            /\ UNCHANGED <<saved, ssPc>>
       ELSE /\ ssPc' = [ssPc EXCEPT ![r] = [pc |-> "checked", user |-> u, name |-> name]]
            /\ UNCHANGED <<saved, ssLast>>
  /\ UNCHANGED <<listingVars, searchVars, viewVars>>

\* saveSearch from there on: SavedSearch.create and the 201 response
saveSearchCreate(r) ==
  /\ ssPc[r].pc = "checked"
  /\ saved' = Append(saved,
       [userId |-> ssPc[r].user, name |-> Trim(ssPc[r].name),
        isActive |-> TRUE, deleted |-> FALSE])
  /\ ssLast' = SsAnswer("saveSearch", ssPc[r].user, ssPc[r].name, 201)
  /\ ssPc' = [ssPc EXCEPT ![r] = Idle]
  /\ UNCHANGED <<listingVars, searchVars, viewVars>>

\* the modelled part of the body of PUT /saved/:id
SavedBodies == [name : NameInputs \cup {<<>>}, isActive : {"absent", "true", "false"}]

\* PUT /saved/:id (findOne and save touch one document)
updateSavedSearch(u, id, body) ==
  /\ IF ~OwnSearch(u, id)
       THEN /\ ssLast' = SsAnswer("updateSavedSearch", u, body.name, 404)
            /\ UNCHANGED saved
       ELSE /\ saved' = [saved EXCEPT
                  ![id].name = IF body.name # <<>> THEN Trim(body.name) ELSE @,
                  ![id].isActive = IF body.isActive = "absent" THEN @
                                   ELSE body.isActive = "true"]
            /\ ssLast' = SsAnswer("updateSavedSearch", u, body.name, 200)
  /\ UNCHANGED <<ssPc, listingVars, searchVars, viewVars>>

\* DELETE /saved/:id
deleteSavedSearch(u, id) ==
  /\ IF ~OwnSearch(u, id)
       THEN /\ ssLast' = SsAnswer("deleteSavedSearch", u, <<>>, 404)
            /\ UNCHANGED saved
       ELSE /\ saved' = [saved EXCEPT ![id].deleted = TRUE]
            /\ ssLast' = SsAnswer("deleteSavedSearch", u, <<>>, 200)
  /\ UNCHANGED <<ssPc, listingVars, searchVars, viewVars>>

SavedIds == 1..MaxSaved

InitSaved ==
  /\ saved = <<>>
  /\ ssPc = [r \in SaveReqs |-> Idle]
  /\ ssLast = SsAnswer("none", "ann", <<>>, 0)
  /\ properties = <<>>
  /\ role = InitRole
  /\ lastOp = NoOp
  /\ store = <<>>
  /\ sreq = <<>>
  /\ sresp = <<>>
  /\ viewPc = <<>>

NextSaved ==
  \/ \E r \in SaveReqs, u \in SearchUsers, n \in NameInputs : saveSearchCheck(r, u, n)
  \/ \E r \in SaveReqs : saveSearchCreate(r)
  \/ \E u \in SearchUsers, id \in SavedIds, b \in SavedBodies : updateSavedSearch(u, id, b)
  \/ \E u \in SearchUsers, id \in SavedIds : deleteSavedSearch(u, id)

SpecSaved == InitSaved /\ [][NextSaved]_vars

(***************************************************************************)
(* Claims on the saved searches (checked under SpecSaved)                  *)
(***************************************************************************)

\* user u has a live active saved search stored under the name n
HasActiveNamed(u, n) ==
  \E i \in 1..Len(saved) :
    ~saved[i].deleted /\ saved[i].isActive /\ saved[i].userId = u /\ saved[i].name = n

\* C5: a save whose trimmed name is the name of an active saved search of the
\* user is answered 400 and creates nothing; any other save (another name,
\* or the same name once the first search is deactivated or deleted) goes on
\* and creates exactly one record, active, under the trimmed name, answered 201.
C5_SaveSearchDuplicateName ==
  [][/\ \A r \in SaveReqs :
          (ssPc[r].pc = "idle" /\ ssPc'[r].pc = "checked") =>
             ~HasActiveNamed(ssPc'[r].user, Trim(ssPc'[r].name))
     /\ (ssLast' # ssLast /\ ssLast'.op = "saveSearch" /\ ssLast'.code = 400) =>
          /\ HasActiveNamed(ssLast'.user, Trim(ssLast'.name))
          /\ saved' = saved
     /\ \A r \in SaveReqs :
          (ssPc[r].pc = "checked" /\ ssPc'[r].pc = "idle") =>
             /\ ssLast' = SsAnswer("saveSearch", ssPc[r].user, ssPc[r].name, 201)
             /\ saved' = Append(saved,
                  [userId |-> ssPc[r].user, name |-> Trim(ssPc[r].name),
                   isActive |-> TRUE, deleted |-> FALSE])]_vars

\* C5 witness: the same name saved again after a deactivation, the second
\* record active, and a third save of that name (untrimmed) just refused
C5_Witness ==
  /\ ssLast.op = "saveSearch" /\ ssLast.code = 400
  /\ ssLast.name # Trim(ssLast.name)
  /\ \E i, j \in 1..Len(saved) :
       /\ i < j
       /\ saved[i].userId = ssLast.user /\ saved[j].userId = ssLast.user
       /\ saved[i].name = Trim(ssLast.name) /\ saved[j].name = Trim(ssLast.name)
       /\ ~saved[i].isActive /\ ~saved[i].deleted
       /\ saved[j].isActive /\ ~saved[j].deleted

\* C6: no user owns two active saved searches with the same name.
C6_NoDuplicateActiveNames ==
  \A i, j \in 1..Len(saved) :
    (/\ i # j
     /\ ~saved[i].deleted /\ ~saved[j].deleted
     /\ saved[i].isActive /\ saved[j].isActive
     /\ saved[i].userId = saved[j].userId)
      => saved[i].name # saved[j].name

(***************************************************************************)
(* The search pipeline: query parameters                                   *)
(***************************************************************************)

\* The modelled query parameters; every other recognised parameter (search,
\* area, state, pincode, locality, budget, bathrooms, minArea, maxArea,
\* furnishing, parking, age, facing, metro, landmark) is absent from the
\* modelled requests.  A parameter is a string, "" when absent.
ParamKeys ==
  {"q", "city", "minPrice", "maxPrice", "priceRange", "bedrooms", "propertyType",
   "amenities", "radius", "sortBy", "page", "limit"}

\* the values a modelled request gives a parameter; "(" is not a regular
\* expression, "-1" a page before the first, "9" no price bucket
ParamValues(k) ==
  CASE k = "q" -> {"sea", "s", " "}
    [] k = "city" -> {"pune", "("}
    [] k = "minPrice" -> {"2500000"}
    [] k = "maxPrice" -> {"5000000"}
    [] k = "priceRange" -> {"1", "2", "3", "4", "5", "6", "9"}
    [] k = "bedrooms" -> {"2"}
    [] k = "propertyType" -> {"villa"}
    [] k = "amenities" -> {"pool", "gym", "pool,gym"}
    [] k = "radius" -> {"10", "50", "200"}
    [] k = "sortBy" -> {"relevance", "price_low"}
    [] k = "page" -> {"2", "-1"}
    [] k = "limit" -> {"1", "100", "abc"}

\* a request with a radius names its centre too
CentreLat == "19.0"
CentreLng == "73.0"

MkQuery(f) ==
  [k \in ParamKeys \cup {"lat", "lng"} |->
     IF k \in DOMAIN f THEN f[k]
     ELSE IF k = "lat" /\ "radius" \in DOMAIN f THEN CentreLat
     ELSE IF k = "lng" /\ "radius" \in DOMAIN f THEN CentreLng
     ELSE ""]

ParamOrder ==
  << "q", "city", "minPrice", "maxPrice", "priceRange", "bedrooms", "propertyType",
     "amenities", "radius", "sortBy", "page", "limit" >>

\* the ways to give values to at most n of the parameters from the i-th on
RECURSIVE Given(_, _)
Given(i, n) ==
  IF i > Len(ParamOrder) \/ n = 0 THEN {[k \in {} |-> ""]}
  ELSE Given(i + 1, n) \cup
       {(ParamOrder[i] :> v) @@ f : v \in ParamValues(ParamOrder[i]), f \in Given(i + 1, n - 1)}

Queries == {MkQuery(f) : f \in Given(1, MaxParams)}

\* arrays of strings, as a JSON body or saveSearch's normalisation gives them
ArrayValues == {"[2]", "[2,3]", "[villa]", "[villa,apartment]"}

isArray(v) == v \in ArrayValues

elements(v) ==
  CASE v = "[2]" -> <<"2">>
    [] v = "[2,3]" -> <<"2", "3">>
    [] v = "[villa]" -> <<"villa">>
    [] v = "[villa,apartment]" -> <<"villa", "apartment">>

arrayOf(seq) == CHOOSE v \in ArrayValues : elements(v) = seq

\* Array.prototype.toString(): the elements joined by commas
toString(v) ==
  CASE v = "[2]" -> "2"
    [] v = "[2,3]" -> "2,3"
    [] v = "[villa]" -> "villa"
    [] v = "[villa,apartment]" -> "villa,apartment"

\* parseInt / parseFloat on the strings of the modelled requests; parseInt
\* reads the leading digits and turns an array into a string first
NumberStrings ==
  {"0", "1", "2", "3", "-1", "10", "50", "100", "200", "2500000", "5000000", "2,3"}

NumberOf(s) ==
  CASE s = "0" -> 0 [] s = "1" -> 1 [] s = "2" -> 2 [] s = "3" -> 3 [] s = "-1" -> -1
    [] s = "10" -> 10 [] s = "50" -> 50 [] s = "100" -> 100 [] s = "200" -> 200
    [] s = "2500000" -> 2500000 [] s = "5000000" -> 5000000 [] s = "2,3" -> 2

parseInt(s) ==
  LET str == IF isArray(s) THEN toString(s) ELSE s IN
  IF str \in NumberStrings THEN [nan |-> FALSE, n |-> NumberOf(str)] ELSE [nan |-> TRUE, n |-> 0]

\* a condition on the number parseInt gave: NaN is kept apart from the
\* numbers, n being meaningless then
numberCond(op, v) ==
  IF v.nan THEN [op |-> op, v |-> 0, nan |-> {op}] ELSE [op |-> op, v |-> v.n]

\* the bounds of a range that are NaN
nanBounds(minPrice, maxPrice) ==
  {b \in {"$gte"} : minPrice # "" /\ parseInt(minPrice).nan}
    \cup {b \in {"$lte"} : maxPrice # "" /\ parseInt(maxPrice).nan}

rangeCond(priceQuery, nan) ==
  IF nan = {} THEN [op |-> "$range", v |-> priceQuery]
  ELSE [op |-> "$range", v |-> priceQuery, nan |-> nan]

\* parseInt(x) || d
OrDefault(v, d) == IF v.nan \/ v.n = 0 THEN d ELSE v.n

\* parseFloat of a coordinate, in tenths of a degree
parseFloatDeg(s) ==
  CASE s = "19.0" -> 190 [] s = "73.0" -> 730 [] OTHER -> 0

\* String.prototype.split(",")
split(s) ==
  CASE s = "pool,gym" -> <<"pool", "gym">>
    [] s = "2,3" -> <<"2", "3">>
    [] s = "villa,apartment" -> <<"villa", "apartment">>
    [] OTHER -> <<s>>

\* includes(","): of a string, that it holds a comma; of an array, that one
\* of its elements is the comma
includesComma(s) == s \in {"pool,gym", "2,3", "villa,apartment"}

Range(seq) == {seq[i] : i \in 1..Len(seq)}

\* String.prototype.trim()
trim(s) == CASE s = " " -> "" [] OTHER -> s

\* a case-insensitive $regex / $regexMatch of pattern in text, on the
\* (lower-case) texts and patterns of the model
InvalidRegex == {"("}
regexMatch(text, pattern) ==
  \/ pattern = text
  \/ <<text, pattern>> \in {<<"sea view", "sea">>, <<"seaford", "sea">>, <<"sea view", " ">>,
                               <<"sea view", "s">>, <<"seaford", "s">>}

(***************************************************************************)
(* AdvancedApiFeatures                                                     *)
(***************************************************************************)

EmptyObject == [k \in {} |-> 0]

\* Object.assign(target, source) and the merge of Query.find(filter)
assign(target, source) == source @@ target

\* a base query without the status condition
baseQuery_any == EmptyObject

\* const baseQuery = { status: "active" }
baseQuery == "status" :> [op |-> "$eq", v |-> "active"]

\* constructor(query, queryString)
AdvancedApiFeatures(queryString) ==
  [ queryString |-> queryString,
    page |-> OrDefault(parseInt(queryString.page), 1),
    limit |-> OrDefault(parseInt(queryString.limit), 20),
    isAggregated |-> FALSE,
    aggregationPipeline |-> <<>>,
    conditions |-> baseQuery,      \* of this.query while it is a find query
    sort |-> <<>>,
    skip |-> 0,
    take |-> 0 ]

\* a find query that keeps only the conditions of its last find()
addFilter_replace(F, filter) ==
  IF F.isAggregated
    THEN [F EXCEPT !.aggregationPipeline = Append(@, [stage |-> "$match", filter |-> filter])]
    ELSE [F EXCEPT !.conditions = filter]

addFilter(F, filter) ==
  IF F.isAggregated
    THEN [F EXCEPT !.aggregationPipeline = Append(@, [stage |-> "$match", filter |-> filter])]
    ELSE [F EXCEPT !.conditions = assign(@, filter)]

convertToAggregation(F) ==
  IF ~F.isAggregated
    THEN [F EXCEPT !.isAggregated = TRUE,
                   !.aggregationPipeline =
                      IF DOMAIN F.conditions # {}
                        THEN Append(@, [stage |-> "$match", filter |-> F.conditions])
                        ELSE @]
    ELSE F

advancedSearch(F) ==
  LET searchTerm == F.queryString.q IN
  IF searchTerm # "" /\ trim(searchTerm) # ""
    THEN LET G == convertToAggregation(F) IN
         [G EXCEPT !.aggregationPipeline =
            @ \o << [stage |-> "$match",
                     filter |-> "$or" :> [op |-> "$textOrRegex", v |-> searchTerm]],
                    [stage |-> "$addFields", score |-> searchTerm] >>]
    ELSE F

locationSearch(F) ==
  LET city == F.queryString.city IN
  IF city # ""
    THEN addFilter(F, "location.city" :> [op |-> "$regex", v |-> city])
    ELSE F

\* the predefined price ranges
ranges(priceRange) ==
  CASE priceRange = "1" -> ("$gte" :> 0 @@ "$lte" :> 2500000)
    [] priceRange = "2" -> ("$gte" :> 2500000 @@ "$lte" :> 5000000)
    [] priceRange = "3" -> ("$gte" :> 5000000 @@ "$lte" :> 10000000)
    [] priceRange = "4" -> ("$gte" :> 10000000 @@ "$lte" :> 20000000)
    [] priceRange = "5" -> ("$gte" :> 20000000)
    [] OTHER -> EmptyObject

priceFilter(F) ==
  LET minPrice == F.queryString.minPrice
      maxPrice == F.queryString.maxPrice
      priceRange == F.queryString.priceRange
      q1 == IF minPrice # "" THEN "$gte" :> parseInt(minPrice).n ELSE EmptyObject
      q2 == IF maxPrice # "" THEN assign(q1, "$lte" :> parseInt(maxPrice).n) ELSE q1
      priceQuery == IF priceRange # "" THEN assign(q2, ranges(priceRange)) ELSE q2
      nan == IF priceRange # ""
               THEN nanBounds(minPrice, maxPrice) \ DOMAIN ranges(priceRange)
               ELSE nanBounds(minPrice, maxPrice)
  IN IF (minPrice # "" \/ maxPrice # "" \/ priceRange # "") /\ DOMAIN priceQuery # {}
       THEN addFilter(F, "price" :> rangeCond(priceQuery, nan))
       ELSE F

\* the amenities filter of propertyFilters
amenitiesFilter_in(amenities) == [op |-> "$in", v |-> split(amenities)]

amenitiesFilter(amenities) == [op |-> "$all", v |-> split(amenities)]

propertyFilters(F) ==
  LET bedrooms == F.queryString.bedrooms
      propertyType == F.queryString.propertyType
      amenities == F.queryString.amenities
      numbers == [k \in 1..Len(split(bedrooms)) |-> parseInt(split(bedrooms)[k]).n]
      f1 == IF bedrooms # ""
              THEN "bedrooms" :>
                     (IF includesComma(bedrooms)
                        THEN [op |-> "$in", v |-> numbers]
                        ELSE numberCond("$eq", parseInt(bedrooms)))
              ELSE EmptyObject
      f2 == IF propertyType # ""
              THEN assign(f1, "propertyType" :>
                     (IF includesComma(propertyType)
                        THEN [op |-> "$in", v |-> split(propertyType)]
                        ELSE [op |-> "$eq", v |-> propertyType]))
              ELSE f1
      filters == IF amenities # ""
                   THEN assign(f2, "amenities" :> amenitiesFilter(amenities))
                   ELSE f2
  IN IF DOMAIN filters # {} THEN addFilter(F, filters) ELSE F

geoSearch(F) ==
  LET lat == F.queryString.lat
      lng == F.queryString.lng
      radius == F.queryString.radius
  IN IF lat # "" /\ lng # "" /\ radius # ""
       THEN addFilter(F, "location.coordinates" :>
              [op |-> "$geoWithin", lng |-> parseFloatDeg(lng), lat |-> parseFloatDeg(lat),
               radiusInKm |-> parseInt(radius).n])
       ELSE F

sortOptions(sortBy) ==
  CASE sortBy = "price_low" -> << [f |-> "price", dir |-> 1] >>
    [] sortBy = "price_high" -> << [f |-> "price", dir |-> -1] >>
    [] sortBy = "area_large" -> << [f |-> "areaSqft", dir |-> -1] >>
    [] sortBy = "area_small" -> << [f |-> "areaSqft", dir |-> 1] >>
    [] sortBy = "newest" -> << [f |-> "createdAt", dir |-> -1] >>
    [] sortBy = "oldest" -> << [f |-> "createdAt", dir |-> 1] >>
    [] sortBy = "relevance" -> << [f |-> "score", dir |-> -1], [f |-> "createdAt", dir |-> -1] >>
    [] sortBy = "popular" -> << [f |-> "viewCount", dir |-> -1], [f |-> "createdAt", dir |-> -1] >>
    [] OTHER -> <<>>

IsNotScore(c) == c.f # "score"

hasScoreStage(pipeline) == \E i \in 1..Len(pipeline) : pipeline[i].stage = "$addFields"

advancedSort(F) ==
  LET sortBy == F.queryString.sortBy
      chosen == IF sortBy # "" /\ sortOptions(sortBy) # <<>>
                  THEN sortOptions(sortBy)
                  ELSE << [f |-> "createdAt", dir |-> -1] >>
      \* { score: -1, ...sortCriteria }
      sortCriteria == IF F.isAggregated /\ hasScoreStage(F.aggregationPipeline)
                        THEN << [f |-> "score", dir |-> -1] >> \o SelectSeq(chosen, IsNotScore)
                        ELSE chosen
  IN IF F.isAggregated
       THEN [F EXCEPT !.aggregationPipeline = Append(@, [stage |-> "$sort", sort |-> sortCriteria])]
       ELSE [F EXCEPT !.sort = sortCriteria]

advancedPaginate(F) ==
  LET skip == (F.page - 1) * F.limit IN
  IF F.isAggregated
    THEN [F EXCEPT !.aggregationPipeline =
            @ \o << [stage |-> "$skip", n |-> skip], [stage |-> "$limit", n |-> F.limit] >>]
    ELSE [F EXCEPT !.skip = skip, !.take = F.limit]

applyFilters(F) ==
  advancedPaginate(advancedSort(geoSearch(propertyFilters(priceFilter(
    locationSearch(advancedSearch(F)))))))

(***************************************************************************)
(* The listing store and the execution of a plan                           *)
(***************************************************************************)

\* The listings a store is drawn from.  textScore is the text index's score
\* of the listing for the modelled search term; all listings lie on the
\* meridian of the modelled centre, lat and lng in tenths of a degree.
SampleListings ==
  { [status |-> "active", title |-> "sea view", city |-> "pune", textScore |-> 1,
     price |-> 2500000, bedrooms |-> 2, propertyType |-> "apartment",
     amenities |-> {"pool", "gym"}, lat |-> 190, lng |-> 730, createdAt |-> 1,
     viewCount |-> 9, areaSqft |-> 900],
    [status |-> "active", title |-> "flat", city |-> "seaford", textScore |-> 1,
     price |-> 5000000, bedrooms |-> 3, propertyType |-> "villa",
     amenities |-> {"pool"}, lat |-> 195, lng |-> 730, createdAt |-> 1,
     viewCount |-> 3, areaSqft |-> 1200],
    [status |-> "active", title |-> "flat", city |-> "pune", textScore |-> 0,
     price |-> 20000000, bedrooms |-> 2, propertyType |-> "villa",
     amenities |-> {}, lat |-> 200, lng |-> 730, createdAt |-> 2,
     viewCount |-> 3, areaSqft |-> 900],
    [status |-> "pending", title |-> "sea view", city |-> "pune", textScore |-> 1,
     price |-> 2500000, bedrooms |-> 2, propertyType |-> "apartment",
     amenities |-> {"pool", "gym"}, lat |-> 190, lng |-> 730, createdAt |-> 2,
     viewCount |-> 9, areaSqft |-> 900],
    [status |-> "active", title |-> "flat", city |-> "pune", textScore |-> 0,
     price |-> 60000000, bedrooms |-> 3, propertyType |-> "apartment",
     amenities |-> {"gym"}, lat |-> 194, lng |-> 730, createdAt |-> 2,
     viewCount |-> 0, areaSqft |-> 1500] }

\* the Earth's radius of geoSearch, in tenths of a kilometre
EarthRadiusTenthKm == 63781

Abs(x) == IF x < 0 THEN -x ELSE x

\* $centerSphere: the angle between the points, in radians, is at most
\* radiusInKm / 6378.1; pi is taken as 355 / 113
geoWithin(l, c) ==
  Abs(l.lat - c.lat) * 355 * EarthRadiusTenthKm <= c.radiusInKm * 1800 * 113 * 10

FieldOf(l, key) ==
  CASE key = "status" -> l.status
    [] key = "location.city" -> l.city
    [] key = "price" -> l.price
    [] key = "bedrooms" -> l.bedrooms
    [] key = "propertyType" -> l.propertyType
    [] key = "createdAt" -> l.createdAt

\* a condition that compares with NaN
IsNaNCond(c) == "nan" \in DOMAIN c /\ c.nan # {}

HasNaN(filter) == \E key \in DOMAIN filter : IsNaNCond(filter[key])

\* one condition of a filter document; no stored number compares with NaN
CondHolds(l, key, c) ==
  CASE IsNaNCond(c) -> FALSE
    [] c.op = "$eq" ->
         \* a find query casts an array given for a string path to $in
         IF key = "propertyType" /\ isArray(c.v)
           THEN FieldOf(l, key) \in Range(elements(c.v))
           ELSE FieldOf(l, key) = c.v
    [] c.op = "$regex" -> regexMatch(FieldOf(l, key), c.v)
    [] c.op = "$range" ->
         /\ "$gte" \in DOMAIN c.v => l.price >= c.v["$gte"]
         /\ "$lte" \in DOMAIN c.v => l.price <= c.v["$lte"]
    [] c.op = "$all" -> Range(c.v) \subseteq l.amenities
    [] c.op = "$in" ->
         IF key = "amenities" THEN Range(c.v) \cap l.amenities # {}
         ELSE FieldOf(l, key) \in Range(c.v)
    [] c.op = "$geoWithin" -> geoWithin(l, c)
    [] c.op = "$textOrRegex" ->
         \/ (c.v = "sea" /\ l.textScore > 0)
         \/ regexMatch(l.title, c.v)
         \/ regexMatch(l.city, c.v)

Matches(l, filter) == \A key \in DOMAIN filter : CondHolds(l, key, filter[key])

\* the store refuses a filter holding a malformed regular expression
Malformed(filter) ==
  \E key \in DOMAIN filter : filter[key].op = "$regex" /\ filter[key].v \in InvalidRegex

\* the value a document is ordered by; a document has a score once a
\* $addFields stage has computed it
score(l, term) ==
  l.textScore * 1 + (IF regexMatch(l.title, term) THEN 5 ELSE 0)
                  + (IF regexMatch(l.city, term) THEN 3 ELSE 0)

SortValue(st, i, f, term) ==
  CASE f = "score" -> IF term = "" THEN 0 ELSE score(st[i], term)
    [] f = "price" -> st[i].price
    [] f = "createdAt" -> st[i].createdAt
    [] f = "viewCount" -> st[i].viewCount
    [] f = "areaSqft" -> st[i].areaSqft
    [] OTHER -> 0

Precedes(st, i, j, crit, term) ==
  \E k \in 1..Len(crit) :
     /\ \A m \in 1..(k - 1) : SortValue(st, i, crit[m].f, term) = SortValue(st, j, crit[m].f, term)
     /\ IF crit[k].dir = 1
          THEN SortValue(st, i, crit[k].f, term) < SortValue(st, j, crit[k].f, term)
          ELSE SortValue(st, i, crit[k].f, term) > SortValue(st, j, crit[k].f, term)

\* The orders in which the store may yield the documents ids sorted by crit:
\* documents the sort keys do not distinguish come in any order.
sorted(st, ids, crit, term) ==
  {sq \in [1..Cardinality(ids) -> ids] :
     /\ \A a, b \in 1..Cardinality(ids) : a # b => sq[a] # sq[b]
     /\ \A a, b \in 1..Cardinality(ids) : a < b => ~Precedes(st, sq[b], sq[a], crit, term)}

Min(a, b) == IF a < b THEN a ELSE b

\* cursor.skip(n).limit(m)
page(sq, skip, take) == SubSeq(sq, skip + 1, Min(Len(sq), skip + take))

MatchIds(st, filter) == {i \in 1..Len(st) : Matches(st[i], filter)}

Thrown == [threw |-> TRUE, datas |-> {}, total |-> 0]

\* Query.exec() of a find query, with countDocuments of the same conditions;
\* datas are the item lists the store may answer
execFind(st, conditions, sort, skip, take) ==
  IF Malformed(conditions) \/ skip < 0
    THEN Thrown
    ELSE [threw |-> FALSE,
          datas |-> {page(sq, skip, take) : sq \in sorted(st, MatchIds(st, conditions), sort, "")},
          total |-> Cardinality(MatchIds(st, conditions))]

\* the stages of an aggregation pipeline, run in order over the documents;
\* docs are the document lists that may enter the stage
RECURSIVE runPipeline(_, _, _, _)
runPipeline(st, pipeline, docs, term) ==
  IF pipeline = <<>> THEN docs
  ELSE LET s == Head(pipeline)
           KeepMatch(i) == Matches(st[i], s.filter)
           out == CASE s.stage = "$match" -> {SelectSeq(d, KeepMatch) : d \in docs}
                    [] s.stage = "$addFields" -> docs
                    [] s.stage = "$sort" ->
                         UNION {sorted(st, Range(d), s.sort, term) : d \in docs}
                    [] s.stage = "$skip" -> {SubSeq(d, s.n + 1, Len(d)) : d \in docs}
                    [] s.stage = "$limit" -> {SubSeq(d, 1, Min(Len(d), s.n)) : d \in docs}
       IN runPipeline(st, Tail(pipeline), out,
                      IF s.stage = "$addFields" THEN s.score ELSE term)

pipelineThrows(pipeline) ==
  \E i \in 1..Len(pipeline) :
     \/ pipeline[i].stage = "$match" /\ Malformed(pipeline[i].filter)
     \/ pipeline[i].stage = "$skip" /\ pipeline[i].n < 0

AllIds(st) == [i \in 1..Len(st) |-> i]

IsCounted(s) == s.stage \notin {"$skip", "$limit"}

\* features.getQuery() awaited, and the count pipeline; the object-document
\* mapper is not part of the repository, so whether it executes the rebuilt
\* aggregation (aggregateRuns) or throws is left open
execAggregate(st, pipeline, aggregateRuns) ==
  IF ~aggregateRuns \/ pipelineThrows(pipeline)
    THEN Thrown
    ELSE [threw |-> FALSE,
          datas |-> runPipeline(st, pipeline, {AllIds(st)}, ""),
          total |-> Cardinality(Range(CHOOSE d \in
                      runPipeline(st, SelectSeq(pipeline, IsCounted), {AllIds(st)}, "") : TRUE))]

(***************************************************************************)
(* GET /api/properties                                                     *)
(***************************************************************************)

\* the simple query of the catch block
fallbackQuery(query) ==
  LET f1 == IF query.city # ""
              THEN assign(baseQuery, "location.city" :> [op |-> "$regex", v |-> query.city])
              ELSE baseQuery
      f2 == IF query.propertyType # ""
              THEN assign(f1, "propertyType" :> [op |-> "$eq", v |-> query.propertyType])
              ELSE f1
      f3 == IF query.bedrooms # ""
              THEN assign(f2, "bedrooms" :> numberCond("$eq", parseInt(query.bedrooms)))
              ELSE f2
      p1 == IF query.minPrice # "" THEN "$gte" :> parseInt(query.minPrice).n ELSE EmptyObject
      p2 == IF query.maxPrice # "" THEN assign(p1, "$lte" :> parseInt(query.maxPrice).n) ELSE p1
  IN IF DOMAIN p2 # {}
       THEN assign(f3, "price" :> rangeCond(p2, nanBounds(query.minPrice, query.maxPrice)))
       ELSE f3

NoResponse == [op |-> "none"]

\* a count that leaves the conditions of the page query out
countConditions_base(queryConditions) == baseQuery

\* the conditions of countQuery: Property.find(baseQuery), then a find() of
\* every condition of the page query but the status
countConditions(queryConditions) ==
  assign(baseQuery,
         [key \in DOMAIN queryConditions \ {"status"} |-> queryConditions[key]])

\* the answers listPublicProperties may give to a request over the store st
publicResponses(st, query) ==
  LET features == applyFilters(AdvancedApiFeatures(query))
      skip == (OrDefault(parseInt(query.page), 1) - 1) * OrDefault(parseInt(query.limit), 20)
      limit == OrDefault(parseInt(query.limit), 20)
      fallback == execFind(st, fallbackQuery(query),
                           << [f |-> "createdAt", dir |-> -1] >>, skip, limit)
      failure == [op |-> "listPublicProperties", code |-> 500, path |-> "fallback",
                  scored |-> features.isAggregated,
                  data |-> <<>>, total |-> 0, page |-> 0, limit |-> 0]
      \* the object-document mapper casts the conditions of a find query and
      \* is not part of the repository: whether it refuses NaN for a number
      \* path or hands it to the store is left open
      castRejects(primary) ==
        IF primary.threw THEN HasNaN(fallbackQuery(query))
        ELSE ~features.isAggregated /\ HasNaN(features.conditions)
                /\ HasNaN(fallbackQuery(query))
      answers(primary) ==
        LET result == IF primary.threw THEN fallback ELSE primary IN
        (IF castRejects(primary) THEN {failure} ELSE {}) \cup
        IF result.threw
          \* the error reaches the global error handler
          THEN {failure}
          ELSE {[op |-> "listPublicProperties", code |-> 200,
                 path |-> IF primary.threw THEN "fallback"
                          ELSE IF features.isAggregated THEN "aggregate" ELSE "find",
                 scored |-> features.isAggregated,
                 data |-> data, total |-> result.total,
                 page |-> OrDefault(parseInt(query.page), 1),
                 limit |-> OrDefault(parseInt(query.limit), 20)] : data \in result.datas}
  IN IF features.isAggregated
       THEN UNION {answers(execAggregate(st, features.aggregationPipeline, aggregateRuns))
                     : aggregateRuns \in BOOLEAN}
       ELSE answers([execFind(st, features.conditions, features.sort,
                              features.skip, features.take)
                       EXCEPT !.total =
                         Cardinality(MatchIds(st, countConditions(features.conditions)))])

\* The handler reads the store and writes nothing a later request reads, so a
\* behaviour answers one request.
listPublicProperties ==
  /\ sresp = NoResponse
  /\ \E query \in Queries : \E response \in publicResponses(store, query) :
        /\ sreq' = query
        /\ sresp' = response
  /\ UNCHANGED <<store, listingVars, savedVars, viewVars>>

InitSearch ==
  /\ properties = <<>>
  /\ role = InitRole
  /\ lastOp = <<>>
  /\ saved = <<>>
  /\ ssPc = <<>>
  /\ ssLast = <<>>
  /\ store \in [1..NumListings -> SampleListings]
  /\ sreq = <<>>
  /\ sresp = NoResponse
  /\ viewPc = <<>>

NextSearch == listPublicProperties

SpecSearch == InitSearch /\ [][NextSearch]_vars

(***************************************************************************)
(* Properties of the search pipeline                                       *)
(***************************************************************************)

Answered == sresp.op = "listPublicProperties"

\* the request gives the parameter k and no other
OnlyParam(k) == \A other \in ParamKeys \ {k} : sreq[other] = ""

\* the fixed price-bucket table
boundaries == << 0, 2500000, 5000000, 10000000, 20000000, 50000000 >>
BucketIds == << "1", "2", "3", "4", "5", "6" >>

InBucket(price, b) ==
  /\ boundaries[b] <= price
  /\ b < Len(boundaries) => price < boundaries[b + 1]

\* C1: a public listing search whose primary plan fails, or whose fallback
\* query fails, still ends with an HTTP-success response and an item list;
\* no request is answered with a server error.
C1_FallbackNeverServerError == Answered => sresp.code = 200

C8_PriceBucketHalfOpen ==
  \A b \in 1..Len(BucketIds) :
     (Answered /\ sresp.code = 200 /\ sreq.priceRange = BucketIds[b] /\ OnlyParam("priceRange"))
       => Range(sresp.data) =
            {i \in 1..Len(store) : store[i].status = "active" /\ InBucket(store[i].price, b)}

\* C9: a search around a centre with radius 200 km returns the listings the
\* search with radius 50 km returns, those within 50 km of the centre.
C9_RadiusClampedTo50 ==
  (Answered /\ sresp.code = 200 /\ sreq.radius = "200" /\ OnlyParam("radius"))
    => Range(sresp.data) =
         {i \in 1..Len(store) :
            /\ store[i].status = "active"
            /\ geoWithin(store[i], [lat |-> parseFloatDeg(sreq.lat), radiusInKm |-> 50])}

\* C10: in the items of a search with a free-text term and relevance ordering,
\* a listing whose title contains the term comes before a listing of equal
\* recency and equal text score whose city alone contains it.
C10_TitleMatchRanksFirst ==
  (Answered /\ sresp.code = 200 /\ sreq.q = "sea" /\ sreq.sortBy = "relevance")
    => \A a, b \in 1..Len(sresp.data) :
         LET t == store[sresp.data[a]]
             c == store[sresp.data[b]]
         IN (/\ regexMatch(t.title, sreq.q)
             /\ regexMatch(c.city, sreq.q) /\ ~regexMatch(c.title, sreq.q)
             /\ t.createdAt = c.createdAt /\ t.textScore = c.textScore)
              => a < b

(***************************************************************************)
(* The predicate groups of a plan, added in any order                      *)
(***************************************************************************)

Groups == {"advancedSearch", "locationSearch", "priceFilter", "propertyFilters", "geoSearch"}

applyGroup(F, g) ==
  CASE g = "advancedSearch" -> advancedSearch(F)
    [] g = "locationSearch" -> locationSearch(F)
    [] g = "priceFilter" -> priceFilter(F)
    [] g = "propertyFilters" -> propertyFilters(F)
    [] g = "geoSearch" -> geoSearch(F)

RECURSIVE applyGroups(_, _)
applyGroups(F, order) ==
  IF order = <<>> THEN F ELSE applyGroups(applyGroup(F, Head(order)), Tail(order))

\* the group that reads a parameter
GroupOf(k) ==
  CASE k = "q" -> "advancedSearch"
    [] k = "city" -> "locationSearch"
    [] k \in {"minPrice", "maxPrice", "priceRange"} -> "priceFilter"
    [] k \in {"bedrooms", "propertyType", "amenities"} -> "propertyFilters"
    [] k = "radius" -> "geoSearch"
    [] OTHER -> "none"

\* The groups a request gives a parameter to.  A group none of whose
\* parameters is given returns the plan as it is, wherever it is called.
GivenGroups(query) == {GroupOf(k) : k \in {k \in ParamKeys : query[k] # ""}} \cap Groups

Orders(gs) ==
  {order \in [1..Cardinality(gs) -> gs] :
     \A a, b \in 1..Cardinality(gs) : a # b => order[a] # order[b]}

\* the listings that satisfy every predicate of a plan
planMatch(st, F) ==
  IF F.isAggregated
    THEN {i \in 1..Len(st) :
            \A k \in 1..Len(F.aggregationPipeline) :
               F.aggregationPipeline[k].stage = "$match"
                 => Matches(st[i], F.aggregationPipeline[k].filter)}
    ELSE MatchIds(st, F.conditions)

\* the methods of AdvancedApiFeatures called on Property.find(baseQuery) in
\* the order order
buildPlan ==
  /\ sresp = NoResponse
  /\ \E query \in Queries : \E order \in Orders(GivenGroups(query)) :
       LET F == applyGroups(AdvancedApiFeatures(query), order) IN
       /\ sreq' = query
       /\ sresp' = [op |-> "buildPlan", order |-> order, isAggregated |-> F.isAggregated,
                    matched |-> planMatch(store, F)]
  /\ UNCHANGED <<store, listingVars, savedVars, viewVars>>

InitPlan ==
  /\ properties = <<>>
  /\ role = InitRole
  /\ lastOp = <<>>
  /\ saved = <<>>
  /\ ssPc = <<>>
  /\ ssLast = <<>>
  /\ store \in [1..NumListings -> SampleListings]
  /\ sreq = <<>>
  /\ sresp = NoResponse
  /\ viewPc = <<>>

NextPlan == buildPlan

SpecPlan == InitPlan /\ [][NextPlan]_vars

listPublicPropertiesAgain ==
  /\ sresp.op = "listPublicProperties"
  /\ \E response \in publicResponses(store, sreq) :
        /\ response.path = sresp.path
        /\ response.code = sresp.code
        /\ sresp' = [op |-> "listPublicPropertiesAgain", first |-> sresp, second |-> response]
  /\ UNCHANGED <<store, sreq, listingVars, savedVars, viewVars>>

InitRepeat ==
  /\ properties = <<>>
  /\ role = InitRole
  /\ lastOp = <<>>
  /\ saved = <<>>
  /\ ssPc = <<>>
  /\ ssLast = <<>>
  /\ store \in [1..NumListings -> SampleListings]
  /\ sreq = <<>>
  /\ sresp = NoResponse
  /\ viewPc = <<>>

NextRepeat ==
  \/ listPublicProperties
  \/ listPublicPropertiesAgain

SpecRepeat == InitRepeat /\ [][NextRepeat]_vars

\* C12: the same public search request issued twice, with no write to the
\* store in between, returns the same items in the same order and the same
\* total, also when matching listings tie on the sort key.
C12_PaginationIdempotent ==
  sresp.op = "listPublicPropertiesAgain"
    => /\ sresp.second.data = sresp.first.data
       /\ sresp.second.total = sresp.first.total

(***************************************************************************)
(* Page, limit and the free-text term                                      *)
(***************************************************************************)

\* the number of characters of a free-text term of the modelled requests
length(s) == CASE s = "" -> 0 [] s = " " -> 1 [] s = "s" -> 1 [] s = "sea" -> 3

\* C13: every plan the search pipeline executes has a limit between 1 and 50
\* and a page of at least 1, whatever page and limit the caller gives; no
\* answer carries more than 50 items.
C13_LimitWithinBounds ==
  (Answered /\ sresp.code = 200)
    => /\ sresp.limit >= 1 /\ sresp.limit <= 50
       /\ sresp.page >= 1
       /\ Len(sresp.data) <= 50

\* C14: a plan is scored (aggregation mode with the text match and the score
\* stage) exactly when the free-text term, trimmed, has at least two
\* characters.
C14_ScoredIffTermOfTwo ==
  Answered => (sresp.scored <=> length(trim(sreq.q)) >= 2)

(***************************************************************************)
(* GET /api/search and GET /api/search/facets                              *)
(***************************************************************************)

Branches == {"priceRanges", "bedroomCounts", "cities", "propertyTypes", "furnishingTypes"}

\* the $bucket of a price: the index of its lower boundary, the index after
\* the last for the default bucket
bucketOf(price) ==
  IF price >= boundaries[Len(boundaries)] THEN Len(boundaries) + 1
  ELSE CHOOSE b \in 1..(Len(boundaries) - 1) : boundaries[b] <= price /\ price < boundaries[b + 1]

\* the key a branch groups a listing by; no modelled listing has a furnishing
groupKey(l, branch) ==
  CASE branch = "priceRanges" -> bucketOf(l.price)
    [] branch = "bedroomCounts" -> l.bedrooms
    [] branch = "cities" -> l.city
    [] branch = "propertyTypes" -> l.propertyType
    [] branch = "furnishingTypes" -> "null"

\* the counts of one branch over the documents ids: group key -> count
branchCounts(st, ids, branch) ==
  [key \in {groupKey(st[i], branch) : i \in ids} |->
     Cardinality({i \in ids : groupKey(st[i], branch) = key})]

\* the documents that reach the $facet stage
facetBase(st, queryParams) ==
  {i \in 1..Len(st) :
     /\ st[i].status = "active"
     /\ queryParams.q # "" =>
          \/ (queryParams.q = "sea" /\ st[i].textScore > 0)
          \/ regexMatch(st[i].title, queryParams.q)
          \/ regexMatch(st[i].city, queryParams.q)}

\* One aggregation holds all branches, inside one try: the facets are those
\* of every branch, or the empty object when the store fails on a branch
\* (failing, the branches it fails on).
getFacetedResultsHelper(st, queryParams, failing) ==
  IF failing # {}
    THEN EmptyObject
    ELSE [branch \in Branches |-> branchCounts(st, facetBase(st, queryParams), branch)]

\* the store fails on no branch or on one
Failures == {{}} \cup {{branch} : branch \in Branches}

getFacetedResults ==
  /\ sresp = NoResponse
  /\ \E query \in Queries : \E failing \in Failures :
        /\ sreq' = query
        /\ sresp' = [op |-> "getFacetedResults", code |-> 200, failing |-> failing,
                     facets |-> getFacetedResultsHelper(store, query, failing)]
  /\ UNCHANGED <<store, listingVars, savedVars, viewVars>>

\* An aggregated plan holds an Aggregate in features.query, which has no
\* conditions to count by and nothing to populate: the handler throws on it
\* and answers from its catch block.
advancedSearchProperties ==
  /\ sresp = NoResponse
  /\ \E query \in Queries : \E failing \in {{}, Branches} :
       LET countQuery == applyGroups(AdvancedApiFeatures(query),
                           << "advancedSearch", "locationSearch", "priceFilter",
                              "propertyFilters", "geoSearch" >>)
           features == applyFilters(AdvancedApiFeatures(query))
           found == execFind(store, features.conditions, features.sort,
                             features.skip, features.take)
           threw == \/ countQuery.isAggregated
                    \/ Malformed(countQuery.conditions)
                    \/ found.threw
       IN /\ sreq' = query
          /\ IF threw
               THEN sresp' = [op |-> "advancedSearchProperties", code |-> 500,
                              data |-> <<>>, total |-> 0, page |-> 0, limit |-> 0,
                              facets |-> EmptyObject]
               ELSE \E data \in found.datas :
                    sresp' = [op |-> "advancedSearchProperties", code |-> 200,
                              data |-> data,
                              total |-> Cardinality(MatchIds(store, countQuery.conditions)),
                              page |-> features.page, limit |-> features.limit,
                              facets |-> getFacetedResultsHelper(store, query, failing)]
  /\ UNCHANGED <<store, listingVars, savedVars, viewVars>>

InitEndpoints ==
  /\ properties = <<>>
  /\ role = InitRole
  /\ lastOp = <<>>
  /\ saved = <<>>
  /\ ssPc = <<>>
  /\ ssLast = <<>>
  /\ store \in [1..NumListings -> SampleListings]
  /\ sreq = <<>>
  /\ sresp = NoResponse
  /\ viewPc = <<>>

NextEndpoints ==
  \/ advancedSearchProperties
  \/ getFacetedResults

SpecEndpoints == InitEndpoints /\ [][NextEndpoints]_vars

\* C15: when the store fails on one facet branch, the facet response still
\* carries the counts of every sibling branch and an empty object for the
\* failing branch only.
C15_FacetBranchIsolation ==
  (sresp.op = "getFacetedResults" /\ Cardinality(sresp.failing) = 1)
    => \A branch \in Branches :
         /\ branch \in DOMAIN sresp.facets
         /\ sresp.facets[branch] =
              IF branch \in sresp.failing THEN EmptyObject
              ELSE branchCounts(store, facetBase(store, sreq), branch)

\* C16: GET /api/search answers every request with HTTP success and a result
\* list; a failure while the plan is built or executed is not reported to the
\* caller.
C16_AdvancedSearchNeverFails ==
  sresp.op = "advancedSearchProperties" => sresp.code = 200

(***************************************************************************)
(* GET /api/properties/admin/all and the reported totals                   *)
(***************************************************************************)

\* the features object over a find query with the conditions conditions
AdvancedApiFeaturesOn(conditions, queryString) ==
  [AdvancedApiFeatures(queryString) EXCEPT !.conditions = conditions]

\* the answers getAllProperties may give user u; an aggregated plan holds an
\* Aggregate, which the handler cannot populate, and the error reaches the
\* global error handler
adminResponses(st, u, query) ==
  LET features == applyFilters(AdvancedApiFeaturesOn(EmptyObject, query))
      found == execFind(st, features.conditions, features.sort, features.skip, features.take)
      countFeatures == applyGroups(AdvancedApiFeaturesOn(EmptyObject, query),
                         << "locationSearch", "priceFilter", "propertyFilters", "geoSearch" >>)
  IN IF role[u] # "admin"
       THEN {[op |-> "getAllProperties", code |-> 403, path |-> "find",
              data |-> <<>>, total |-> 0, page |-> 0, limit |-> 0]}
     ELSE IF features.isAggregated \/ found.threw \/ Malformed(countFeatures.conditions)
       THEN {[op |-> "getAllProperties", code |-> 500, path |-> "find",
              data |-> <<>>, total |-> 0, page |-> 0, limit |-> 0]}
     ELSE {[op |-> "getAllProperties", code |-> 200, path |-> "find",
            data |-> data,
            total |-> Cardinality(MatchIds(st, countFeatures.conditions)),
            page |-> features.page, limit |-> features.limit] : data \in found.datas}

getAllProperties ==
  /\ sresp = NoResponse
  /\ \E u \in Users : \E query \in Queries : \E response \in adminResponses(store, u, query) :
        /\ sreq' = query
        /\ sresp' = response
  /\ UNCHANGED <<store, listingVars, savedVars, viewVars>>

InitTotals ==
  /\ properties = <<>>
  /\ role = InitRole
  /\ lastOp = <<>>
  /\ saved = <<>>
  /\ ssPc = <<>>
  /\ ssLast = <<>>
  /\ store \in [1..NumListings -> SampleListings]
  /\ sreq = <<>>
  /\ sresp = NoResponse
  /\ viewPc = <<>>

NextTotals ==
  \/ listPublicProperties
  \/ getAllProperties

SpecTotals == InitTotals /\ [][NextTotals]_vars

\* the request without page and limit
Unpaged(query) == [query EXCEPT !.page = "", !.limit = ""]

\* the answers the same handler gives, by the same path, to the request
\* without page and limit
UnpagedAnswers ==
  {r \in (IF sresp.op = "listPublicProperties"
            THEN publicResponses(store, Unpaged(sreq))
            ELSE adminResponses(store, "adm", Unpaged(sreq))) : r.path = sresp.path}

\* C17: the total of a search answer is the number of listings the page query
\* yields once skip and limit are taken away, in find and in aggregation
\* mode; it does not depend on page or limit, and the items never outnumber it.
C17_TotalCountsPageQuery ==
  (sresp.op \in {"listPublicProperties", "getAllProperties"} /\ sresp.code = 200)
    => /\ Len(sresp.data) <= sresp.total
       /\ \A r \in UnpagedAnswers :
            /\ r.code = 200
            /\ r.total = sresp.total
            /\ Len(r.data) = sresp.total
            /\ Range(sresp.data) \subseteq Range(r.data)

\* C17 witness: a second page of one item out of a total of two, in find mode.
C17_Witness ==
  /\ sresp.op = "listPublicProperties" /\ sresp.code = 200 /\ sresp.path = "find"
  /\ sreq.page = "2" /\ sreq.limit = "1"
  /\ Len(sresp.data) = 1 /\ sresp.total = 2

(***************************************************************************)
(* Saved searches run against the listing store                            *)
(***************************************************************************)

\* the saved searches a user asks for: a name with its filter parameters
RunSearches ==
  { [name |-> <<"a">>, searchQuery |-> MkQuery("city" :> "pune")],
    [name |-> <<"b">>, searchQuery |-> MkQuery("q" :> "sea")] }

\* the listings of this store: two active ones in different cities and one
\* that awaits approval
RunListings == {l \in SampleListings : l.textScore = 1}

\* the paths of savedSearchSchema; an update of a path the schema does not
\* declare is not stored
schemaPaths ==
  {"userId", "name", "searchQuery", "alertFrequency", "isActive", "lastAlertSent",
   "resultCount", "description"}

castUpdate(update) == [path \in DOMAIN update \cap schemaPaths |-> update[path]]

\* SavedSearch.findByIdAndUpdate(id, update)
findByIdAndUpdate(docs, id, update) ==
  [docs EXCEPT ![id] = assign(@, castUpdate(update))]

\* Property.countDocuments(features.query.getQuery()) of the full plan; an
\* aggregated plan holds an Aggregate, which has no getQuery
countByPlan(st, searchQuery) ==
  LET features == applyFilters(AdvancedApiFeatures(searchQuery)) IN
  IF features.isAggregated \/ Malformed(features.conditions)
    THEN [threw |-> TRUE, n |-> 0]
    ELSE [threw |-> FALSE, n |-> Cardinality(MatchIds(st, features.conditions))]

\* a string value split at its commas into an array of trimmed strings; an
\* array is kept
normalized(value) ==
  IF value # "" /\ ~isArray(value)
    THEN arrayOf([k \in 1..Len(split(value)) |-> trim(split(value)[k])])
    ELSE value

\* normalizedSearchQuery
normalize(searchQuery) ==
  [searchQuery EXCEPT !.bedrooms = normalized(@), !.propertyType = normalized(@)]

\* POST /saved, the whole handler
saveSearch(u, name, searchQuery) ==
  /\ Len(saved) < MaxSaved
  /\ IF existingSearch(u, name)
       THEN /\ ssLast' = [op |-> "saveSearch", user |-> u, code |-> 400]
            /\ UNCHANGED saved
       ELSE /\ saved' = Append(saved,
                 [userId |-> u, name |-> Trim(name), isActive |-> TRUE, deleted |-> FALSE,
                  searchQuery |-> normalize(searchQuery),
                  resultCount |-> countByPlan(store, normalize(searchQuery)).n])
            /\ ssLast' = [op |-> "saveSearch", user |-> u, code |-> 201]
  /\ UNCHANGED <<ssPc, store, sreq, sresp, listingVars, viewVars>>

\* a write to the listing store: a listing awaiting approval becomes active
activateListing(i) ==
  /\ store[i].status = "pending"
  /\ store' = [store EXCEPT ![i].status = "active"]
  /\ ssLast' = [op |-> "activateListing", user |-> "adm", code |-> 200]
  /\ UNCHANGED <<saved, ssPc, sreq, sresp, listingVars, viewVars>>

\* a stored count left as it was
refreshedCount_stale(stored, currentCount) == stored

\* the stored count after a refresh: updated when it differs
refreshedCount(stored, currentCount) ==
  IF currentCount # stored THEN currentCount ELSE stored

\* the user's active searches, newest first
ActiveOf(u) ==
  LET ids == SelectSeq([i \in 1..Len(saved) |-> i],
                       LAMBDA i : Live(i) /\ saved[i].userId = u /\ saved[i].isActive)
  IN [k \in 1..Len(ids) |-> ids[Len(ids) + 1 - k]]

\* a refresh in which one failing entry fails them all
entryRefreshed_together(st, docs, ids, i) ==
  \A k \in 1..Len(ids) : ~countByPlan(st, docs[ids[k]].searchQuery).threw

\* the try block of one entry: its own count decides whether it is refreshed
entryRefreshed(st, docs, ids, i) == ~countByPlan(st, docs[i].searchQuery).threw

\* GET /saved
getSavedSearches(u) ==
  LET ids == ActiveOf(u)
      current(i) == [countByPlan(store, saved[i].searchQuery)
                       EXCEPT !.threw = ~entryRefreshed(store, saved, ids, i)]
  IN /\ saved' = [i \in 1..Len(saved) |->
                    IF (\E k \in 1..Len(ids) : ids[k] = i) /\ ~current(i).threw
                      THEN [saved[i] EXCEPT
                              !.resultCount = refreshedCount(@, current(i).n)]
                      ELSE saved[i]]
     /\ ssLast' = [op |-> "getSavedSearches", user |-> u, code |-> 200,
                   data |-> [k \in 1..Len(ids) |->
                     IF current(ids[k]).threw
                       THEN [id |-> ids[k], refreshed |-> FALSE,
                             resultCount |-> saved[ids[k]].resultCount]
                       ELSE [id |-> ids[k], refreshed |-> TRUE,
                             resultCount |-> current(ids[k]).n,
                             hasNewResults |-> current(ids[k]).n > saved[ids[k]].resultCount]]]
     /\ UNCHANGED <<ssPc, store, sreq, sresp, listingVars, viewVars>>

\* the times a request may be served at
Times == {1, 2}

\* GET /saved/:id/execute
executeSavedSearch(u, id, now) ==
  /\ IF ~(OwnSearch(u, id) /\ saved[id].isActive)
       THEN /\ ssLast' = [op |-> "executeSavedSearch", user |-> u, id |-> id, code |-> 404]
            /\ UNCHANGED saved
       ELSE LET features == applyFilters(AdvancedApiFeatures(saved[id].searchQuery))
                found == execFind(store, features.conditions, features.sort,
                                  features.skip, features.take)
            IN IF features.isAggregated \/ found.threw
                 \* populate on an Aggregate, or the store's error: the catch block
                 THEN /\ ssLast' = [op |-> "executeSavedSearch", user |-> u, id |-> id,
                                    code |-> 500]
                      /\ UNCHANGED saved
                 ELSE \E data \in found.datas :
                      /\ saved' = findByIdAndUpdate(saved, id,
                                    [resultCount |-> found.total, lastExecutedAt |-> now])
                      /\ ssLast' = [op |-> "executeSavedSearch", user |-> u, id |-> id,
                                    code |-> 200, total |-> found.total, at |-> now,
                                    data |-> data]
  /\ UNCHANGED <<ssPc, store, sreq, sresp, listingVars, viewVars>>

InitSavedRun ==
  /\ saved = <<>>
  /\ ssPc = <<>>
  /\ ssLast = [op |-> "none", user |-> "ann", code |-> 0]
  /\ properties = <<>>
  /\ role = InitRole
  /\ lastOp = <<>>
  /\ store \in [1..NumListings -> RunListings]
  /\ sreq = <<>>
  /\ sresp = NoResponse
  /\ viewPc = <<>>

NextSavedRun ==
  \/ \E u \in SearchUsers, run \in RunSearches :
        saveSearch(u, run.name, run.searchQuery)
  \/ \E i \in 1..NumListings : activateListing(i)
  \/ \E u \in SearchUsers : getSavedSearches(u)
  \/ \E u \in SearchUsers, id \in SavedIds, now \in Times : executeSavedSearch(u, id, now)

SpecSavedRun == InitSavedRun /\ [][NextSavedRun]_vars

Refreshed(response) == {k \in 1..Len(response.data) : response.data[k].refreshed}

\* C18: in an answer of getSavedSearches, every entry whose refresh succeeded
\* carries the live count, hasNewResults exactly when the live count exceeds
\* the count stored before, and the stored count is the live count afterwards;
\* a second list call right after the first, by the same user, reports
\* hasNewResults false for every such entry.
C18_SavedSearchRefresh ==
  [][ssLast'.op = "getSavedSearches" =>
       /\ \A i \in 1..Len(saved) :
            (Live(i) /\ saved[i].userId = ssLast'.user /\ saved[i].isActive)
              => \E k \in 1..Len(ssLast'.data) : ssLast'.data[k].id = i
       /\ \A k \in Refreshed(ssLast') :
            LET e == ssLast'.data[k]
                live == {r.total : r \in {r \in publicResponses(store, saved[e.id].searchQuery) :
                                            r.path = "find"}}
            IN /\ live = {e.resultCount}
               /\ e.hasNewResults <=> (e.resultCount > saved[e.id].resultCount)
               /\ saved'[e.id].resultCount = e.resultCount
       /\ (ssLast.op = "getSavedSearches" /\ ssLast.user = ssLast'.user)
            => \A k \in Refreshed(ssLast') : ~ssLast'.data[k].hasNewResults
     ]_vars

\* C18 witness: a list answer with a refreshed entry that has new results and
\* an entry whose refresh failed.
C18_Witness ==
  /\ ssLast.op = "getSavedSearches"
  /\ \E k \in Refreshed(ssLast) :
        /\ ssLast.data[k].hasNewResults
        /\ saved[ssLast.data[k].id].resultCount = ssLast.data[k].resultCount
        /\ ssLast.data[k].resultCount > 0
  /\ \E k \in 1..Len(ssLast.data) : ~ssLast.data[k].refreshed

\* C19: when executeSavedSearch on an active saved search of the caller
\* succeeds, the stored record afterwards has lastExecutedAt set to the time
\* of the execution and resultCount set to the total of the answer; and it
\* succeeds for stored filters with a free-text term as for the others.
C19_ExecuteUpdatesRecord ==
  [][(/\ ssLast'.op = "executeSavedSearch"
      /\ OwnSearch(ssLast'.user, ssLast'.id) /\ saved[ssLast'.id].isActive)
       => /\ ssLast'.code = 200
               => /\ saved'[ssLast'.id].resultCount = ssLast'.total
                  /\ "lastExecutedAt" \in DOMAIN saved'[ssLast'.id]
                  /\ saved'[ssLast'.id].lastExecutedAt = ssLast'.at
          /\ ~Malformed(applyFilters(AdvancedApiFeatures(saved[ssLast'.id].searchQuery)).conditions)
               => ssLast'.code = 200
     ]_vars

(***************************************************************************)
(* Reading one listing and counting the view                               *)
(***************************************************************************)

\* concurrent GET /:id requests
MaxReads == 2

Requests == 1..MaxReads

\* req.user after optionalAuth: nobody, an admin, the owner of the listings,
\* another user
NoUser == "anonymous"

Viewers == {NoUser, "adm", "ann", "bob"}

\* the stored listings read here: viewCount starts at the schema's default
ViewListings ==
  { [status |-> st, createdBy |-> "ann", viewCount |-> 0] : st \in {"active", "pending"} }

\* the handlers routed at GET /:id
ReadHandlers == {"getPropertyById", "getPropertyByIdEnhanced"}

\* a JavaScript value with its type, compared by ===
jsBoolean(b) == [type |-> "boolean", value |-> b]

jsString(str) == [type |-> "string", value |-> str]

undefined == [type |-> "undefined", value |-> ""]

\* req.query.trackView
TrackViewInputs == {undefined, jsString("true"), jsString("false")}

\* const { trackView = true } = req.query
trackViewOf(given) == IF given = undefined THEN jsBoolean("true") ELSE given

\* req.user.role === "admin" || createdBy === req.user._id
canView(property, u) == role[u] = "admin" \/ property.createdBy = u

isOwner(property, u) == u # NoUser /\ property.createdBy = u

\* the condition under which the handler goes on to count the view
tracks(handler, trackView, property) ==
  IF handler = "getPropertyByIdEnhanced"
    THEN trackView = jsString("true") /\ property.status = "active"
    ELSE property.status = "active"

\* populate("createdBy") finds no User document: the path is null
creatorMissing(property) == property.createdBy \notin DOMAIN role

\* String(property.createdBy) of the populated, lean document: a plain object
objectToString(createdBy) == "[object Object]"

\* the handler reads a property of property.createdBy: in the permission check
\* of a signed-in user who is not an admin, and in isOwner of a signed-in user
dereferences(handler, trackView, property, u) ==
  /\ u # NoUser
  /\ IF property.status # "active" THEN role[u] # "admin"
     ELSE tracks(handler, trackView, property)

\* the permission check of a signed-in user on a listing that is not active
permitted(handler, property, u) ==
  IF handler = "getPropertyById"
    THEN ensureOwnerOrAdmin([property EXCEPT !.createdBy = objectToString(@)], u)
    ELSE canView(property, u)

\* first half of the handler: Property.findById, the permission checks and
\* the decision to count; the request then waits for the store
findById(r, u, id, handler, given) ==
  /\ viewPc[r].pc = "idle"
  /\ u = NoUser \/ u \in DOMAIN role
  /\ LET property == store[id]
         request == [user |-> u, id |-> id, handler |-> handler, given |-> given,
                     seen |-> property.status,
                     admin |-> u # NoUser /\ role[u] = "admin",
                     owner |-> property.createdBy = u]
     IN IF creatorMissing(property)
             /\ dereferences(handler, trackViewOf(given), property, u)
          \* a TypeError, answered by the error handler
          THEN viewPc' = [viewPc EXCEPT ![r] = request @@ [pc |-> "done", code |-> 500]]
          ELSE IF property.status # "active"
                  /\ (u = NoUser \/ ~permitted(handler, property, u))
          THEN viewPc' = [viewPc EXCEPT ![r] = request @@ [pc |-> "done", code |-> 403]]
          ELSE IF tracks(handler, trackViewOf(given), property) /\ ~isOwner(property, u)
                 THEN viewPc' = [viewPc EXCEPT ![r] = request @@ [pc |-> "inc", code |-> 0]]
                 ELSE viewPc' = [viewPc EXCEPT ![r] = request @@ [pc |-> "done", code |-> 200]]
  /\ UNCHANGED <<store, sreq, sresp, listingVars, savedVars>>

\* second half: Property.findByIdAndUpdate(id, { $inc: { viewCount: 1 } }),
\* one atomic operation of the store, and the answer
incViewCount(r) ==
  /\ viewPc[r].pc = "inc"
  /\ store' = [store EXCEPT ![viewPc[r].id].viewCount = @ + 1]
  /\ viewPc' = [viewPc EXCEPT ![r].pc = "done", ![r].code = 200]
  /\ UNCHANGED <<sreq, sresp, listingVars, savedVars>>

InitViews ==
  /\ store \in [1..NumListings -> ViewListings]
  /\ viewPc = [r \in Requests |-> [pc |-> "idle"]]
  /\ properties = <<>>
  /\ role = InitRole
  /\ lastOp = <<>>
  /\ saved = <<>>
  /\ ssPc = <<>>
  /\ ssLast = <<>>
  /\ sreq = <<>>
  /\ sresp = NoResponse

NextViews ==
  \/ \E r \in Requests, u \in Viewers, id \in 1..NumListings, handler \in ReadHandlers,
        given \in TrackViewInputs : findById(r, u, id, handler, given)
  \/ \E r \in Requests : incViewCount(r)

SpecViews == InitViews /\ [][NextViews]_vars

\* the answered reads of listing i made by someone other than its owner while
\* the listing was active
CountedReads(i) ==
  {r \in Requests : /\ viewPc[r].pc = "done"
                    /\ viewPc[r].id = i
                    /\ viewPc[r].code = 200
                    /\ viewPc[r].seen = "active"
                    /\ ~isOwner(store[i], viewPc[r].user)}

\* C20: once every concurrent read is answered, the viewCount of a listing is
\* higher than before by exactly the number of reads of it made by non-owners
\* while it was active; reads by the owner and reads of a listing that is not
\* active add nothing.
C20_ViewCountExact ==
  (\A r \in Requests : viewPc[r].pc = "done")
     => \A i \in 1..NumListings : store[i].viewCount = Cardinality(CountedReads(i))

(***************************************************************************)
(* GET /recommendations                                                    *)
(***************************************************************************)

\* the saved searches the recommendations are derived from
RecSearches ==
  { [name |-> <<"a">>, searchQuery |-> MkQuery("city" :> "pune")],
    [name |-> <<"b">>, searchQuery |-> MkQuery("bedrooms" :> "2" @@ "maxPrice" :> "5000000")] }

\* req.query.limit; "" is a request without the parameter
RecLimits == {"", "1", "2", "0"}

\* const { limit = 10 } = queryParams
DefaultRecLimit == 10

\* the number limit stands for, in parseInt(limit) and in the comparison
\* recommendations.length < limit
requested(limit) == IF limit = "" THEN DefaultRecLimit ELSE parseInt(limit).n

\* cursor.limit(n): a limit of 0 is no limit
limitTo(sq, n) == IF n = 0 THEN sq ELSE SubSeq(sq, 1, Min(Len(sq), n))

HasCity(searchQuery) == searchQuery.city # ""
HasType(searchQuery) == searchQuery.propertyType # ""
HasBedrooms(searchQuery) == searchQuery.bedrooms # ""
HasPrice(searchQuery) == searchQuery.minPrice # "" \/ searchQuery.maxPrice # ""

DefaultMaxPrice == 100000000

extractUserPreferences(searches) ==
  LET withCity == SelectSeq(searches, HasCity)
      withType == SelectSeq(searches, HasType)
      withBedrooms == SelectSeq(searches, HasBedrooms)
      withPrice == SelectSeq(searches, HasPrice)
  IN [cities |-> [k \in 1..Len(withCity) |-> withCity[k].city],
      propertyTypes |-> [k \in 1..Len(withType) |-> withType[k].propertyType],
      bedrooms |-> [k \in 1..Len(withBedrooms) |-> parseInt(withBedrooms[k].bedrooms).n],
      priceRanges |-> [k \in 1..Len(withPrice) |->
         [min |-> IF withPrice[k].minPrice # "" THEN parseInt(withPrice[k].minPrice).n ELSE 0,
          max |-> IF withPrice[k].maxPrice # "" THEN parseInt(withPrice[k].maxPrice).n
                  ELSE DefaultMaxPrice]]]

MinOf(S) == CHOOSE x \in S : \A y \in S : x <= y
MaxOf(S) == CHOOSE x \in S : \A y \in S : x >= y

buildRecommendationQuery(preferences) ==
  LET q1 == IF Len(preferences.cities) > 0
              THEN "location.city" :> [op |-> "$in", v |-> preferences.cities]
              ELSE EmptyObject
      q2 == IF Len(preferences.propertyTypes) > 0
              THEN assign(q1, "propertyType" :> [op |-> "$in", v |-> preferences.propertyTypes])
              ELSE q1
      q3 == IF Len(preferences.bedrooms) > 0
              THEN assign(q2, "bedrooms" :> [op |-> "$in", v |-> preferences.bedrooms])
              ELSE q2
      minPrice == MinOf({r.min : r \in Range(preferences.priceRanges)})
      maxPrice == MaxOf({r.max : r \in Range(preferences.priceRanges)})
  IN IF Len(preferences.priceRanges) > 0
       THEN assign(q3, "price" :> [op |-> "$range",
                                   v |-> ("$gte" :> (minPrice * 8) \div 10
                                          @@ "$lte" :> (maxPrice * 12) \div 10)])
       ELSE q3

\* the filter of the first query: the user's preferences over the active listings
recommendationFilter(u) ==
  LET ids == ActiveOf(u)
      userSearches == [k \in 1..Len(ids) |-> saved[ids[k]].searchQuery]
  IN assign(baseQuery, buildRecommendationQuery(extractUserPreferences(userSearches)))

\* the lists the handler may answer: the listings matching the preferences,
\* newest first, then the most viewed of the other active listings
recommendationLists(st, u, limit) ==
  LET first == IF Len(ActiveOf(u)) > 0
                 THEN {limitTo(sq, requested(limit)) :
                         sq \in sorted(st, MatchIds(st, recommendationFilter(u)),
                                       << [f |-> "createdAt", dir |-> -1],
                                          [f |-> "viewCount", dir |-> -1] >>, "")}
                 ELSE {<<>>}
  IN UNION { IF Len(recommendations) < requested(limit)
               THEN {[data |-> recommendations \o limitTo(sq, requested(limit) - Len(recommendations)),
                      matched |-> Len(recommendations)] :
                       sq \in sorted(st, MatchIds(st, baseQuery) \ Range(recommendations),
                                     << [f |-> "viewCount", dir |-> -1] >>, "")}
               ELSE {[data |-> recommendations, matched |-> Len(recommendations)]}
           : recommendations \in first }

getPropertyRecommendations(u, limit) ==
  /\ \E list \in recommendationLists(store, u, limit) :
        ssLast' = [op |-> "getPropertyRecommendations", user |-> u, code |-> 200,
                   limit |-> limit, data |-> list.data, matched |-> list.matched]
  /\ UNCHANGED <<saved, ssPc, store, sreq, sresp, listingVars, viewVars>>

InitRecs ==
  /\ saved = <<>>
  /\ ssPc = <<>>
  /\ ssLast = [op |-> "none", user |-> "ann", code |-> 0]
  /\ properties = <<>>
  /\ role = InitRole
  /\ lastOp = <<>>
  /\ store \in [1..NumListings -> SampleListings]
  /\ sreq = <<>>
  /\ sresp = NoResponse
  /\ viewPc = <<>>

NextRecs ==
  \/ \E u \in SearchUsers, run \in RecSearches : saveSearch(u, run.name, run.searchQuery)
  \/ \E u \in SearchUsers, limit \in RecLimits : getPropertyRecommendations(u, limit)

SpecRecs == InitRecs /\ [][NextRecs]_vars

ActiveIds(st) == {i \in 1..Len(st) : st[i].status = "active"}

\* C21: a recommendation answer for the requested count n holds only active
\* listings, none twice, the listings matching the preferences before the
\* padding, the padding being the most viewed of the other active listings in
\* descending viewCount, and min(n, number of active listings) items.
C21_RecommendationList ==
  ssLast.op = "getPropertyRecommendations" =>
    LET data == ssLast.data
        n == requested(ssLast.limit)
        padding == {k \in 1..Len(data) : k > ssLast.matched}
    IN /\ \A k \in 1..Len(data) : store[data[k]].status = "active"
       /\ \A a, b \in 1..Len(data) : a # b => data[a] # data[b]
       /\ \A k \in 1..Len(data) :
            k <= ssLast.matched <=>
              (Len(ActiveOf(ssLast.user)) > 0
                 /\ Matches(store[data[k]], recommendationFilter(ssLast.user)))
       /\ \A a, b \in padding : a < b => store[data[a]].viewCount >= store[data[b]].viewCount
       /\ \A k \in padding : \A i \in ActiveIds(store) \ Range(data) :
            store[i].viewCount <= store[data[k]].viewCount
       /\ Len(data) = Min(n, Cardinality(ActiveIds(store)))

\* C22: every item the public search returns is an active listing, on the
\* find path, the aggregation path and the fallback path; a request without
\* any parameter matches exactly the active listings.
C22_PublicOnlyActive ==
  Answered =>
    /\ \A k \in 1..Len(sresp.data) : store[sresp.data[k]].status = "active"
    /\ (\A k \in ParamKeys : sreq[k] = "")
         => /\ sresp.code = 200
            /\ Range(sresp.data) = ActiveIds(store)
            /\ sresp.total = Cardinality(ActiveIds(store))

\* C22 witness: a scored answer of the aggregation path that leaves out a
\* listing matching the term because it is not active.
C22_Witness ==
  /\ Answered
  /\ sresp.path = "aggregate"
  /\ sresp.scored
  /\ Len(sresp.data) > 0
  /\ \E i \in 1..Len(store) :
        /\ store[i].status # "active"
        /\ regexMatch(store[i].title, sreq.q)
        /\ i \notin Range(sresp.data)

(***************************************************************************)
(* The public search with each sort key                                    *)
(***************************************************************************)

SortKeys ==
  {"price_low", "price_high", "area_large", "area_small", "newest", "oldest",
   "relevance", "popular", "cheapest"}

\* requests that name a sort key or none, with and without a free-text term
SortQueries ==
  {MkQuery(f) : f \in {[k \in {} |-> ""], "q" :> "sea"}}
    \cup {MkQuery(("sortBy" :> key) @@ f) :
            key \in SortKeys, f \in {[k \in {} |-> ""], "q" :> "sea"}}

\* GET /api/properties/public of one of these requests
listPublicPropertiesSorted ==
  /\ sresp = NoResponse
  /\ \E query \in SortQueries : \E response \in publicResponses(store, query) :
        /\ sreq' = query
        /\ sresp' = response
  /\ UNCHANGED <<store, listingVars, savedVars, viewVars>>

InitSort ==
  /\ properties = <<>>
  /\ role = InitRole
  /\ lastOp = <<>>
  /\ saved = <<>>
  /\ ssPc = <<>>
  /\ ssLast = <<>>
  /\ store \in [1..NumListings -> SampleListings]
  /\ sreq = <<>>
  /\ sresp = NoResponse
  /\ viewPc = <<>>

NextSort == listPublicPropertiesSorted

SpecSort == InitSort /\ [][NextSort]_vars

\* the field and direction a sort key asks for; relevance asks for none of
\* the listing's own fields
InOrder(sortBy, a, b) ==
  CASE sortBy = "price_low" -> a.price <= b.price
    [] sortBy = "price_high" -> a.price >= b.price
    [] sortBy = "area_large" -> a.areaSqft >= b.areaSqft
    [] sortBy = "area_small" -> a.areaSqft <= b.areaSqft
    [] sortBy = "oldest" -> a.createdAt <= b.createdAt
    [] sortBy = "popular" -> a.viewCount >= b.viewCount
    [] sortBy = "relevance" -> TRUE
    [] OTHER -> a.createdAt >= b.createdAt

\* C23: the items of an answer come in the order of the requested sort key
\* (newest first when the key is absent or not recognised), for requests with
\* and without a free-text term.
C23_SortKeyOrdersItems ==
  (Answered /\ sresp.code = 200) =>
     \A a, b \in 1..Len(sresp.data) :
        a < b => InOrder(sreq.sortBy, store[sresp.data[a]], store[sresp.data[b]])

(***************************************************************************)
(* The public search with numeric parameters that are not numbers          *)
(***************************************************************************)

NumericParams == {"minPrice", "maxPrice", "bedrooms"}

\* a value parseInt reads no number from
NotANumber == "abc"

NumericValues(k) ==
  CASE k = "minPrice" -> {"", NotANumber, "2500000"}
    [] k = "maxPrice" -> {"", NotANumber}
    [] k = "bedrooms" -> {"", NotANumber, "2"}

NumericQueries ==
  {MkQuery(f @@ c) :
     f \in {g \in [NumericParams -> {"", NotANumber, "2", "2500000"}] :
              \A k \in NumericParams : g[k] \in NumericValues(k)},
     c \in {"city" :> "", "city" :> "pune"}}

\* GET /api/properties/public of one of these requests
listPublicPropertiesNumeric ==
  /\ sresp = NoResponse
  /\ \E query \in NumericQueries : \E response \in publicResponses(store, query) :
        /\ sreq' = query
        /\ sresp' = response
  /\ UNCHANGED <<store, listingVars, savedVars, viewVars>>

InitNumeric ==
  /\ properties = <<>>
  /\ role = InitRole
  /\ lastOp = <<>>
  /\ saved = <<>>
  /\ ssPc = <<>>
  /\ ssLast = <<>>
  /\ store \in [1..NumListings -> SampleListings]
  /\ sreq = <<>>
  /\ sresp = NoResponse
  /\ viewPc = <<>>

NextNumeric == listPublicPropertiesNumeric

SpecNumeric == InitNumeric /\ [][NextNumeric]_vars

\* the request without its numeric parameters that are not numbers
WithoutMalformed(query) ==
  [k \in DOMAIN query |->
     IF k \in NumericParams /\ query[k] # "" /\ parseInt(query[k]).nan THEN "" ELSE query[k]]

\* the paths the plan of a request has a condition on
PlanPaths(query) == DOMAIN applyFilters(AdvancedApiFeatures(query)).conditions

\* C24: a numeric parameter that is not a number is ignored: the plan of the
\* request has the conditions of the request without that parameter, and the
\* answer is an answer of that request.
C24_MalformedNumericIgnored ==
  Answered =>
    /\ PlanPaths(sreq) = PlanPaths(WithoutMalformed(sreq))
    /\ \E response \in publicResponses(store, WithoutMalformed(sreq)) :
          /\ response.code = sresp.code
          /\ Range(response.data) = Range(sresp.data)
          /\ response.total = sresp.total

\* the number of active listings the stored parameters of saved search i match
LiveCount(i) ==
  Cardinality(MatchIds(store, applyFilters(AdvancedApiFeatures(saved[i].searchQuery)).conditions))

\* the count of saved search i cannot be taken: its plan is an aggregation
CountFails(i) == applyFilters(AdvancedApiFeatures(saved[i].searchQuery)).isAggregated

\* C25: when the refresh of one saved search fails, the list still succeeds
\* with an entry for each active saved search of the user; the failing entry
\* carries its stored count and its record is unchanged, and every other
\* entry is refreshed and stored as without the failure.
C25_RefreshIsolation ==
  [][ssLast'.op = "getSavedSearches" =>
       /\ ssLast'.code = 200
       /\ Len(ssLast'.data) = Len(ActiveOf(ssLast'.user))
       /\ \A k \in 1..Len(ssLast'.data) :
            LET e == ssLast'.data[k] IN
            /\ e.id = ActiveOf(ssLast'.user)[k]
            /\ IF CountFails(e.id)
                 THEN /\ ~e.refreshed
                      /\ e.resultCount = saved[e.id].resultCount
                      /\ saved'[e.id] = saved[e.id]
                 ELSE /\ e.refreshed
                      /\ e.resultCount = LiveCount(e.id)
                      /\ saved'[e.id] = [saved[e.id] EXCEPT !.resultCount = LiveCount(e.id)]
       /\ \A i \in 1..Len(saved) :
            (\A k \in 1..Len(ssLast'.data) : ssLast'.data[k].id # i) => saved'[i] = saved[i]
     ]_vars

\* C25 witness: a list answer whose first entry failed to refresh and whose
\* later entry was refreshed to a new, higher count.
C25_Witness ==
  /\ ssLast.op = "getSavedSearches"
  /\ Len(ssLast.data) > 1
  /\ ~ssLast.data[1].refreshed
  /\ ssLast.data[2].refreshed
  /\ ssLast.data[2].hasNewResults
  /\ saved[ssLast.data[2].id].resultCount = ssLast.data[2].resultCount

(***************************************************************************)
(* A saved search executed against the public search of its parameters     *)
(***************************************************************************)

\* the parameters saved here: bedrooms and propertyType as a scalar, as a
\* comma-joined string and as an array, and a free-text term
ReplaySearches ==
  { [name |-> <<"a">>, searchQuery |-> MkQuery("bedrooms" :> "2")],
    [name |-> <<"b">>, searchQuery |-> MkQuery("bedrooms" :> "2,3")],
    [name |-> <<"c">>, searchQuery |-> MkQuery("propertyType" :> "villa,apartment")],
    [name |-> <<"d">>, searchQuery |-> MkQuery("propertyType" :> "[villa]")],
    [name |-> <<"e">>, searchQuery |-> MkQuery("q" :> "sea")] }

InitReplay ==
  /\ saved = <<>>
  /\ ssPc = <<>>
  /\ ssLast = [op |-> "none", user |-> "ann", code |-> 0]
  /\ properties = <<>>
  /\ role = InitRole
  /\ lastOp = <<>>
  /\ store \in [1..NumListings -> SampleListings]
  /\ sreq = <<>>
  /\ sresp = NoResponse
  /\ viewPc = <<>>

NextReplay ==
  \/ \E run \in ReplaySearches : saveSearch("ann", run.name, run.searchQuery)
  \/ \E u \in SearchUsers, id \in SavedIds, now \in Times : executeSavedSearch(u, id, now)

SpecReplay == InitReplay /\ [][NextReplay]_vars

\* the parameters a saved search was saved with
GivenAs(name) == (CHOOSE run \in ReplaySearches : run.name = name).searchQuery

\* C26: executing a saved search answers the items and the total that the
\* public search answers for the parameters it was saved with, on the same
\* store.
C26_ReplayEquivalence ==
  [][(/\ ssLast'.op = "executeSavedSearch"
      /\ OwnSearch(ssLast'.user, ssLast'.id) /\ saved[ssLast'.id].isActive)
       => /\ ssLast'.code = 200
          /\ \E response \in publicResponses(store, GivenAs(saved[ssLast'.id].name)) :
                /\ response.code = 200
                /\ Range(response.data) = Range(ssLast'.data)
                /\ response.total = ssLast'.total
     ]_vars

(***************************************************************************)
(* The price, area and geo-point of a stored listing                       *)
(***************************************************************************)

\* a key of a request body: given with a value, or not given
Given1(v) == [given |-> TRUE, v |-> v]
NotGiven == [given |-> FALSE, v |-> 0]

AreaNew == 900

\* latitudes and longitudes in tenths of a degree
LatBound == 900
LngBound == 1800

\* location objects of a request body; point is its coordinates.coordinates,
\* empty when the object has no coordinates
LocationBodies ==
  { [city |-> "pune", point |-> <<>>],
    [city |-> "pune", point |-> <<730, 190, 0>>],
    [city |-> "pune", point |-> <<1900, 950>>] }

NoLocation == [city |-> "", point |-> <<>>]

FieldBodies ==
  [ price : {NotGiven} \cup {Given1(v) : v \in {-1, 0, PriceUpd}},
    areaSqft : {NotGiven} \cup {Given1(v) : v \in {0, AreaNew}},
    lat : {NotGiven} \cup {Given1(v) : v \in {190, 950}},
    lng : {NotGiven} \cup {Given1(v) : v \in {730, 1900}},
    location : {[given |-> FALSE, v |-> NoLocation]}
                 \cup {[given |-> TRUE, v |-> l] : l \in LocationBodies} ]

validateCoordinates(lat, lng) ==
  IF lat < -LatBound \/ lat > LatBound \/ lng < -LngBound \/ lng > LngBound
    THEN [isValid |-> FALSE, lat |-> 0, lng |-> 0]
    ELSE [isValid |-> TRUE, lat |-> lat, lng |-> lng]

\* the validators of propertySchema on the paths an update sets
schemaAccepts(updateData) ==
  /\ "price" \in DOMAIN updateData => updateData.price >= 0
  /\ "areaSqft" \in DOMAIN updateData => updateData.areaSqft >= 0
  /\ ("location" \in DOMAIN updateData /\ updateData.location.point # <<>>)
        => Len(updateData.location.point) = 2

\* a geo-point the 2dsphere index can hold
Indexable(location) ==
  location.point = <<>> \/
    /\ Len(location.point) = 2
    /\ location.point[1] >= -LngBound /\ location.point[1] <= LngBound
    /\ location.point[2] >= -LatBound /\ location.point[2] <= LatBound

FieldAnswer(op, u, id, code) ==
  [op |-> op, actor |-> u, actorRole |-> role[u], id |-> id, code |-> code, reqStatus |-> ""]

\* POST /properties with the price, area and coordinates of the body
createPropertyFields(u, body) ==
  /\ Len(properties) < MaxProps
  /\ checkPermission(u, "property:create")
  /\ LET coordValidation == validateCoordinates(body.lat.v, body.lng.v)
         location == body.location.v
     IN IF \/ ~body.price.given \/ ~body.areaSqft.given
           \/ ~body.location.given
           \/ ~body.lat.given \/ ~body.lng.given
           \/ ~coordValidation.isValid
           \/ body.price.v <= 0 \/ body.areaSqft.v <= 0
          THEN /\ lastOp' = FieldAnswer("createProperty", u, 0, 400)
               /\ UNCHANGED <<properties, role>>
          ELSE /\ properties' = Append(properties,
                    [status |-> "pending", createdBy |-> u, price |-> body.price.v,
                     areaSqft |-> body.areaSqft.v,
                     location |-> [location EXCEPT
                                     !.point = <<coordValidation.lng, coordValidation.lat>>]])
               /\ role' = IF role[u] = "user" THEN [role EXCEPT ![u] = "agent"] ELSE role
               /\ lastOp' = FieldAnswer("createProperty", u, Len(properties) + 1, 201)
  /\ UNCHANGED <<savedVars, searchVars, viewVars>>

\* the body's allowed fields that are given
sanitizedFields(body) ==
  [f \in {k \in {"price", "areaSqft", "location"} : body[k].given} |-> body[f].v]

\* PUT /:id with the price, area, location and coordinates of the body; the
\* geo index may or may not have been built on the deployed collection
updatePropertyFields(u, id, body, indexed) ==
  LET sanitized == sanitizedFields(body)
      coordValidation == validateCoordinates(body.lat.v, body.lng.v)
      withPoint == body.lat.given /\ body.lng.given
      updateData ==
        IF withPoint
          THEN ("location" :>
                  [(IF "location" \in DOMAIN sanitized THEN sanitized.location ELSE NoLocation)
                     EXCEPT !.point = <<coordValidation.lng, coordValidation.lat>>])
               @@ sanitized
          ELSE sanitized
  IN
  /\ UNCHANGED <<role, savedVars, searchVars, viewVars>>
  /\ IF ~checkPermission(u, "property:update")
       THEN /\ lastOp' = FieldAnswer("updateProperty", u, id, 403)
            /\ UNCHANGED properties
     ELSE IF ~Exists(id)
       THEN /\ lastOp' = FieldAnswer("updateProperty", u, id, 404)
            /\ UNCHANGED properties
     ELSE IF ~ensureOwnerOrAdmin(properties[id], u)
       THEN /\ lastOp' = FieldAnswer("updateProperty", u, id, 403)
            /\ UNCHANGED properties
     ELSE IF withPoint /\ ~coordValidation.isValid
       THEN /\ lastOp' = FieldAnswer("updateProperty", u, id, 400)
            /\ UNCHANGED properties
     ELSE IF \/ ~schemaAccepts(updateData)
             \/ (indexed /\ "location" \in DOMAIN updateData /\ ~Indexable(updateData.location))
       \* the validation or write error reaches the global error handler
       THEN /\ lastOp' = FieldAnswer("updateProperty", u, id, 500)
            /\ UNCHANGED properties
     ELSE /\ properties' = [properties EXCEPT ![id] = SetFields(@, updateData)]
          /\ lastOp' = FieldAnswer("updateProperty", u, id, 200)

InitFields ==
  /\ properties = <<>>
  /\ role = InitRole
  /\ lastOp = FieldAnswer("none", "adm", 0, 0)
  /\ saved = <<>>
  /\ ssPc = <<>>
  /\ ssLast = <<>>
  /\ store = <<>>
  /\ sreq = <<>>
  /\ sresp = NoResponse
  /\ viewPc = <<>>

NextFields ==
  \/ \E u \in Users, body \in FieldBodies : createPropertyFields(u, body)
  \/ \E u \in Users, id \in PropIds, body \in FieldBodies, indexed \in BOOLEAN :
        updatePropertyFields(u, id, body, indexed)

SpecFields == InitFields /\ [][NextFields]_vars

\* C27: every stored listing has a price above 0 and an area above 0.
C27_PriceAndAreaPositive ==
  \A i \in 1..Len(properties) : properties[i].price > 0 /\ properties[i].areaSqft > 0

\* C28: every stored listing has a geo-point of exactly two coordinates, the
\* longitude within [-180, 180] and the latitude within [-90, 90].
C28_GeoPointInRange ==
  \A i \in 1..Len(properties) :
     LET point == properties[i].location.point IN
     /\ Len(point) = 2
     /\ point[1] >= -LngBound /\ point[1] <= LngBound
     /\ point[2] >= -LatBound /\ point[2] <= LatBound

(***************************************************************************)
(* The saved searches of two users: every handler of /saved                *)
(***************************************************************************)

\* the body of PUT /saved/:id tried here: a rename with a deactivation
OwnerBodies == { [name |-> <<"b">>, isActive |-> "false"] }

\* the listing store of this specification: an active listing in pune and
\* one in pune that awaits approval
OwnerListings ==
  << CHOOSE l \in RunListings : l.status = "active" /\ l.city = "pune",
     CHOOSE l \in RunListings : l.status = "pending" /\ l.city = "pune" >>

\* the time the requests of this specification are served at
OwnerTime == 1

InitOwners ==
  /\ saved = <<>>
  /\ ssPc = <<>>
  /\ ssLast = [op |-> "none", user |-> "ann", code |-> 0]
  /\ properties = <<>>
  /\ role = InitRole
  /\ lastOp = <<>>
  /\ store = OwnerListings
  /\ sreq = <<>>
  /\ sresp = NoResponse
  /\ viewPc = <<>>

\* what each user saves: bob a search by city, ann a text search
OwnerSearches ==
  { [user |-> "bob", name |-> <<"a">>, searchQuery |-> MkQuery("city" :> "pune")],
    [user |-> "ann", name |-> <<"b">>, searchQuery |-> MkQuery("q" :> "sea")] }

NextOwners ==
  \/ \E run \in OwnerSearches : saveSearch(run.user, run.name, run.searchQuery)
  \/ \E i \in 1..Len(OwnerListings) : activateListing(i)
  \/ \E u \in SearchUsers : getSavedSearches(u)
  \/ \E u \in SearchUsers, id \in SavedIds : executeSavedSearch(u, id, OwnerTime)
  \/ \E u \in SearchUsers, id \in SavedIds, b \in OwnerBodies : updateSavedSearch(u, id, b)
  \/ \E u \in SearchUsers, id \in SavedIds : deleteSavedSearch(u, id)

SpecOwners == InitOwners /\ [][NextOwners]_vars

\* a stored search that belongs to somebody other than u
Foreign(u, id) == Live(id) /\ saved[id].userId # u

\* C29: a list, update, delete or execute request of user u leaves every
\* saved search of another user as it was and returns none of them; an
\* update, delete or execute request that names another user's search is
\* answered 404 and no record changes.
C29_OwnershipIsolation ==
  [][\A u \in SearchUsers :
       /\ ssLast'.user = u =>
            \A i \in 1..Len(saved) : saved[i].userId # u => saved'[i] = saved[i]
       /\ getSavedSearches(u) =>
            \A k \in 1..Len(ssLast'.data) : saved[ssLast'.data[k].id].userId = u
       /\ \A id \in SavedIds :
            Foreign(u, id) =>
              /\ (\E b \in OwnerBodies : updateSavedSearch(u, id, b)) =>
                   ssLast'.code = 404 /\ saved' = saved
              /\ deleteSavedSearch(u, id) => ssLast'.code = 404 /\ saved' = saved
              /\ executeSavedSearch(u, id, OwnerTime) =>
                   ssLast'.code = 404 /\ saved' = saved]_vars

\* ann's update was answered 404 while every id names a search of bob, one of
\* them with a count above 0
C29_Witness ==
  /\ Len(saved) = MaxSaved
  /\ \A i \in 1..Len(saved) : Live(i) /\ saved[i].userId = "bob"
  /\ \E i \in 1..Len(saved) : saved[i].resultCount > 0
  /\ ssLast.op = "updateSavedSearch" /\ ssLast.user = "ann" /\ ssLast.code = 404

(***************************************************************************)
(* Reading one listing while accounts are deleted                          *)
(***************************************************************************)

\* DELETE /api/auth/delete: the account is removed, its listings stay
deleteUser(u) ==
  /\ u \in DOMAIN role
  /\ role' = [v \in DOMAIN role \ {u} |-> role[v]]
  /\ UNCHANGED <<properties, lastOp, store, sreq, sresp, savedVars, viewVars>>

InitReads ==
  /\ store \in [1..NumListings -> ViewListings]
  /\ viewPc = [r \in Requests |-> [pc |-> "idle"]]
  /\ properties = <<>>
  /\ role = InitRole
  /\ lastOp = <<>>
  /\ saved = <<>>
  /\ ssPc = <<>>
  /\ ssLast = <<>>
  /\ sreq = <<>>
  /\ sresp = NoResponse

NextReads ==
  \/ \E r \in Requests, u \in Viewers, id \in 1..NumListings, handler \in ReadHandlers,
        given \in TrackViewInputs : findById(r, u, id, handler, given)
  \/ \E r \in Requests : incViewCount(r)
  \/ \E u \in Users : deleteUser(u)

SpecReads == InitReads /\ [][NextReads]_vars

\* the reads of a listing that was not active when it was read
Restricted == {r \in Requests : viewPc[r].pc # "idle" /\ viewPc[r].seen # "active"}

\* listing data is answered for a listing that is not active only to its
\* owner or to an admin
DataOnlyToOwnerOrAdmin ==
  \A r \in Restricted :
     viewPc[r].code = 200 => viewPc[r].admin \/ viewPc[r].owner

\* C30: a read of a listing that is not active is answered with the data only
\* when the requester is the owner or an admin; a requester who is not signed
\* in, or is neither, is answered 403, and the read never goes on to count a
\* view.
C30_RestrictedRead ==
  /\ DataOnlyToOwnerOrAdmin
  /\ \A r \in Restricted :
        /\ viewPc[r].pc = "done"
        /\ ~(viewPc[r].admin \/ viewPc[r].owner) => viewPc[r].code = 403

====
